---- MODULE Spec2Model ----
(***************************************************************************)
(* Control and lineage subsystem of the manifest-driven data platform:     *)
(* the versioned manifest store, the evidence ledger with its sequence     *)
(* counters, the orchestrator triggers, the curation / semantic /          *)
(* retrieval interpreters and the lineage trace.                           *)
(*                                                                         *)
(* A version string is modelled as the sequence of its dot-separated       *)
(* components; a component that is not a digit string is the value NonNum. *)
(* An absent value (Python None) is NoVersion for versions and NoneRec for *)
(* records.                                                                *)
(***************************************************************************)
EXTENDS Integers, Sequences, FiniteSets, TLC

\* ------------------------------------------------------------------ bounds
MaxDeploys == 3
MaxRuns == 3
MaxLineageRuns == 5
MaxQueued == 2
MaxCalls == 3
MaxTraceRuns == 3
MaxSeqCalls == 4
MaxWalkSteps == 12

\* --------------------------------------------------------------- constants
NonNum == 0 - 1
NoVersion == <<>>
NoneRec == [none |-> TRUE]
NoLayer == "None"

V100 == <<1, 0, 0>>
V200 == <<2, 0, 0>>
V300 == <<3, 0, 0>>

\* manifest names, versions, bodies and deploy arguments that are enumerated
StoreIds == {"m"}
StoreVersions == {V100, V200, V300}
Bodies == {"A", "B"}
LayerArgs == {"curation", "semantics", NoLayer}
AgencyArgs == {"bls"}

VARIABLES
    records,     \* manifest store: <<dir, manifest_id, version>> -> ManifestVersionRecord
    latest,      \* manifest store: <<dir, manifest_id>> -> _latest.json pointer
    now,         \* wall clock, one tick per call
    result,      \* the last ManifestStore.deploy call: its arguments and outcome
    everForced,  \* TRUE once some deploy call was made with force=True
    calls,       \* caller -> the deploy call it is in the middle of
    files,       \* evidence store: file name -> record
    seq,         \* sequence counters: store -> last number issued
    cache,       \* EvidenceStore._utid_to_filename of the running process
    raw,         \* raw store: file name -> metadata of the envelope
    facts,       \* fact store: file name -> metadata of the envelope
    semstore,    \* semantic store: file name -> metadata of the output
    runs,        \* minted utid -> the execution that carries it
    hist,        \* minted utid -> the status values stored for it, in order
    active,      \* utid whose handler is between two steps, 0 when none is
    env          \* the platform the processes run on

storeVars == <<records, latest, now, result, everForced, calls>>
execVars == <<files, seq, cache, raw, facts, semstore, runs, hist, active, env>>
vars == <<records, latest, now, result, everForced, calls,
          files, seq, cache, raw, facts, semstore, runs, hist, active, env>>

\* ----------------------------------------------------------- manifest store

Manifest(name, version, engine, body) ==
    [name |-> name, version |-> version, engine |-> engine, body |-> body]

\* sha256 over the canonical JSON of the whole manifest: equal exactly for
\* manifests that are equal as dictionaries
compute_hash(manifest) ==
    <<"sha", manifest.name, manifest.version, manifest.engine, manifest.body>>

parse_version(v) == SelectSeq(v, LAMBDA p : p >= 0)

Min2(a, b) == IF a < b THEN a ELSE b

\* Python tuple ordering: first differing element decides, a proper prefix is smaller
TupleLess(p1, p2) ==
    \/ \E i \in 1..Min2(Len(p1), Len(p2)) :
          /\ p1[i] < p2[i]
          /\ \A j \in 1..(i - 1) : p1[j] = p2[j]
    \/ /\ Len(p1) < Len(p2)
       /\ \A j \in 1..Len(p1) : p1[j] = p2[j]

\* the decimal digits of a number, and a parsed version written back as
\* text, a dot being a character below every digit
RECURSIVE DecimalDigits(_)
DecimalDigits(n) ==
    IF n < 10 THEN <<n>> ELSE Append(DecimalDigits(n \div 10), n % 10)

RECURSIVE VersionText(_)
VersionText(p) ==
    IF p = <<>> THEN <<>>
    ELSE IF Len(p) = 1 THEN DecimalDigits(p[1])
    ELSE DecimalDigits(p[1]) \o <<0 - 1>> \o VersionText(Tail(p))

\* the comparison of the version strings as strings, character by character
compare_versions_as_text(v1, v2) ==
    LET p1 == VersionText(parse_version(v1))
        p2 == VersionText(parse_version(v2))
    IN  IF TupleLess(p1, p2) THEN 0 - 1
        ELSE IF TupleLess(p2, p1) THEN 1
        ELSE 0

compare_versions(v1, v2) ==
    LET p1 == parse_version(v1)
        p2 == parse_version(v2)
    IN  IF TupleLess(p1, p2) THEN 0 - 1
        ELSE IF TupleLess(p2, p1) THEN 1
        ELSE 0

\* a version string as text: the sequence of its dot-separated components,
\* each the sequence of its characters
DigitValue(c) ==
    CASE c = "0" -> 0 [] c = "1" -> 1 [] c = "2" -> 2 [] c = "3" -> 3 [] c = "4" -> 4
      [] c = "5" -> 5 [] c = "6" -> 6 [] c = "7" -> 7 [] c = "8" -> 8 [] c = "9" -> 9
      [] OTHER -> NonNum

\* str.isdigit(): not empty and digits only
isdigit(p) == p # <<>> /\ \A i \in 1..Len(p) : DigitValue(p[i]) # NonNum

\* int(p) of a digit string
RECURSIVE int(_)
int(p) ==
    IF p = <<>> THEN 0
    ELSE 10 * int(SubSeq(p, 1, Len(p) - 1)) + DigitValue(p[Len(p)])

\* v.split("."), each part turned into what parse_version makes of it
split_version(v) == [i \in 1..Len(v) |-> IF isdigit(v[i]) THEN int(v[i]) ELSE NonNum]

\* the components and version strings that are enumerated: "0", "1", "2",
\* "9", "10" and "a", in versions of one to three components
VersionParts == {<<"0">>, <<"1">>, <<"2">>, <<"9">>, <<"1", "0">>, <<"a">>}

VersionStrings ==
    UNION {[1..n -> VersionParts] : n \in 1..3}

\* the call ManifestStore._compare_versions(v1, v2) alone
CompareVersions ==
    /\ result.op = "versions"
    /\ result' = [op |-> "compare_versions", v1 |-> result.v1, v2 |-> result.v2,
                  value |-> compare_versions(split_version(result.v1),
                                             split_version(result.v2))]
    /\ UNCHANGED <<records, latest, now, everForced, calls>>
    /\ UNCHANGED <<files, seq, cache, raw, facts, semstore, runs, hist, active, env>>

get_manifest_id(manifest) == manifest.name

FlatDir == <<"flat", "flat">>

get_manifest_dir(layer, agency) ==
    IF layer # NoLayer /\ agency # NoLayer THEN <<layer, agency>> ELSE FlatDir

ManifestDirExists(recs, dir, manifest_id) ==
    \E p \in DOMAIN recs : p[1] = dir /\ p[2] = manifest_id

LayerOrder == <<"curation", "semantics", "retrieval">>

AgencyDirs(recs, layer) ==
    {p[1][2] : p \in {q \in DOMAIN recs : q[1][1] = layer /\ q[1] # FlatDir}}

\* the set of values _find_manifest_location can return: the layers are
\* scanned in LayerOrder, the agencies of a layer in directory order
find_manifest_location(recs, manifest_id) ==
    LET hit(i) == {a \in AgencyDirs(recs, LayerOrder[i]) :
                      ManifestDirExists(recs, <<LayerOrder[i], a>>, manifest_id)}
        first == {i \in 1..3 : hit(i) # {} /\ \A j \in 1..(i - 1) : hit(j) = {}}
    IN  IF first = {} THEN {<<NoLayer, NoLayer>>}
        ELSE UNION {{<<LayerOrder[i], a>> : a \in hit(i)} : i \in first}

get_version_path(manifest_id, version, layer, agency) ==
    <<get_manifest_dir(layer, agency), manifest_id, version>>

get_latest_pointer_path(manifest_id, layer, agency) ==
    <<get_manifest_dir(layer, agency), manifest_id>>

\* get_deployed with the location already found
get_deployed_at(recs, ptrs, loc, manifest_id, version) ==
    LET v == IF version # NoVersion THEN version
             ELSE IF get_latest_pointer_path(manifest_id, loc[1], loc[2]) \in DOMAIN ptrs
                  THEN ptrs[get_latest_pointer_path(manifest_id, loc[1], loc[2])].version
                  ELSE NoVersion
        path == get_version_path(manifest_id, v, loc[1], loc[2])
    IN  IF v = NoVersion THEN NoneRec
        ELSE IF path \in DOMAIN recs THEN recs[path] ELSE NoneRec

get_deployed_version_at(ptrs, loc, manifest_id) ==
    LET path == get_latest_pointer_path(manifest_id, loc[1], loc[2])
    IN  IF path \in DOMAIN ptrs THEN ptrs[path].version ELSE NoVersion

\* the set of records get_deployed can return
get_deployed(recs, ptrs, manifest_id, version) ==
    {get_deployed_at(recs, ptrs, loc, manifest_id, version) :
        loc \in find_manifest_location(recs, manifest_id)}

get_deployed_version(recs, ptrs, manifest_id) ==
    {get_deployed_version_at(ptrs, loc, manifest_id) :
        loc \in find_manifest_location(recs, manifest_id)}

\* the key get_all_versions sorts by: the numeric components, in order
version_key(v) == SelectSeq(v, LAMBDA p : p >= 0)

\* sorted(versions, key=version_key): the listings of the directory that
\* are in ascending key order; versions with equal keys keep the order in
\* which the directory yielded them, which can be any
sorted_versions(versions) ==
    {vs \in [1..Cardinality(versions) -> versions] :
        /\ \A i, j \in DOMAIN vs : i # j => vs[i] # vs[j]
        /\ \A i, j \in DOMAIN vs :
              i < j => ~TupleLess(version_key(vs[j]), version_key(vs[i]))}

\* the set of lists ManifestStore.get_all_versions(manifest_id) can return
get_all_versions(recs, manifest_id) ==
    UNION {sorted_versions({p[3] : p \in {q \in DOMAIN recs :
                                             /\ q[1] = get_manifest_dir(loc[1], loc[2])
                                             /\ q[2] = manifest_id}}) :
           loc \in find_manifest_location(recs, manifest_id)}

Call(manifest, force, layer, agency, status, is_latest, previous_version) ==
    [op |-> "deploy", manifest |-> manifest, force |-> force, layer |-> layer,
     agency |-> agency, status |-> status, is_latest |-> is_latest,
     previous_version |-> previous_version]

\* the version record deploy writes to v<version>/manifest.json
ManifestVersionRecord(manifest, layer, agency, deployed_at, previous_version) ==
    [manifest_id |-> get_manifest_id(manifest),
     version |-> manifest.version,
     manifest |-> manifest,
     content_hash |-> compute_hash(manifest),
     deployed_at |-> deployed_at,
     previous_version |-> previous_version,
     layer |-> layer,
     agency |-> agency]

\* ManifestStore.deploy(manifest, force, layer, agency)
deploy(manifest, force, layer, agency) ==
    /\ now < MaxDeploys
    /\ now' = now + 1
    /\ everForced' = (everForced \/ force)
    /\ UNCHANGED calls
    /\ LET manifest_id == get_manifest_id(manifest)
           new_version == manifest.version
           new_hash == compute_hash(manifest)
       IN  \E loc \in find_manifest_location(records, manifest_id) :
           LET existing == get_deployed_at(records, latest, loc, manifest_id, new_version)
               previous_version == get_deployed_version_at(latest, loc, manifest_id)
           IN  IF existing # NoneRec /\ existing.content_hash = new_hash
               THEN /\ result' = Call(manifest, force, layer, agency, "SKIPPED", FALSE, NoVersion)
                    /\ UNCHANGED <<records, latest>>
               ELSE IF existing # NoneRec /\ ~force
               THEN /\ result' = Call(manifest, force, layer, agency,
                                      "GOVERNANCE_VIOLATION", FALSE, NoVersion)
                    /\ UNCHANGED <<records, latest>>
               ELSE
                 LET record == ManifestVersionRecord(manifest, layer, agency, now',
                                                     previous_version)
                     path == get_version_path(manifest_id, new_version, layer, agency)
                     recs2 == (path :> record) @@ records
                 IN  \E loc2 \in find_manifest_location(recs2, manifest_id) :
                     LET current_latest == get_deployed_version_at(latest, loc2, manifest_id)
                         should_update_latest ==
                             \/ current_latest = NoVersion
                             \/ compare_versions(new_version, current_latest) > 0
                         ptr == get_latest_pointer_path(manifest_id, layer, agency)
                     IN  /\ records' = recs2
                         /\ latest' = IF should_update_latest
                                      THEN (ptr :> [version |-> new_version, updated_at |-> now'])
                                               @@ latest
                                      ELSE latest
                         /\ result' = Call(manifest, force, layer, agency, "DEPLOYED",
                                           should_update_latest, previous_version)

\* the dictionaries ManifestStore.deploy can return for a call made on the
\* store (recs, ptrs), NoneRec standing for the ValueError it raises
deploy_returns(recs, ptrs, manifest, force, layer, agency) ==
    LET manifest_id == get_manifest_id(manifest)
        new_version == manifest.version
        new_hash == compute_hash(manifest)
        recs2 == (get_version_path(manifest_id, new_version, layer, agency) :> manifest)
                     @@ recs
    IN  UNION {LET existing == get_deployed_at(recs, ptrs, loc, manifest_id, new_version)
               IN  IF existing # NoneRec /\ existing.content_hash = new_hash
                   THEN {[status |-> "SKIPPED", manifest_id |-> manifest_id,
                          version |-> new_version, content_hash |-> new_hash]}
                   ELSE IF existing # NoneRec /\ ~force
                   THEN {NoneRec}
                   ELSE {LET current_latest ==
                                 get_deployed_version_at(ptrs, loc2, manifest_id)
                         IN  [status |-> "DEPLOYED", manifest_id |-> manifest_id,
                              version |-> new_version, content_hash |-> new_hash,
                              previous_version |->
                                  get_deployed_version_at(ptrs, loc, manifest_id),
                              is_latest |->
                                  \/ current_latest = NoVersion
                                  \/ compare_versions(new_version, current_latest) > 0,
                              engine |-> manifest.engine] :
                         loc2 \in find_manifest_location(recs2, manifest_id)} :
               loc \in find_manifest_location(recs, manifest_id)}

Deploy ==
    \E name \in StoreIds, version \in StoreVersions, body \in Bodies,
       force \in BOOLEAN, layer \in LayerArgs, agency \in AgencyArgs :
        deploy(Manifest(name, version, "python", body), force, layer, agency)

EmptyFn == [x \in {} |-> x]

SeqStores == {"raw", "fact", "semantic_store", "retrieval_store",
              "evidence", "curation", "semantic", "retrieval"}

\* no execution has happened: empty stores, no sequence file, an empty cache
ExecIdle ==
    /\ files = EmptyFn
    /\ seq = [s \in SeqStores |-> 0]
    /\ cache = EmptyFn
    /\ raw = EmptyFn
    /\ facts = EmptyFn
    /\ semstore = EmptyFn
    /\ runs = EmptyFn
    /\ hist = EmptyFn
    /\ active = 0

StoreInit ==
    /\ records = EmptyFn
    /\ latest = EmptyFn
    /\ now = 0
    /\ result = [op |-> "none"]
    /\ everForced = FALSE
    /\ calls = EmptyFn
    /\ ExecIdle
    /\ env = [glob_raises |-> FALSE, faults |-> FALSE, max_runs |-> 0]

StoreNext == Deploy /\ UNCHANGED execVars

SpecStore == StoreInit /\ [][StoreNext]_vars

\* ------------------------------------- manifest store: interleaved deploys

Callers == {"first", "second"}

\* a deploy call in progress: its arguments, its position and its locals
DeployCall(manifest, force, layer, agency) ==
    [manifest |-> manifest, force |-> force, layer |-> layer, agency |-> agency,
     pc |-> "check", previous_version |-> NoVersion, deployed_at |-> 0,
     should_update_latest |-> FALSE, status |-> "RUNNING"]

VersionPathOf(call) ==
    get_version_path(get_manifest_id(call.manifest), call.manifest.version,
                     call.layer, call.agency)

\* open(path, "w") that leaves a file that is already there as it is
dump_if_absent(store, path, data) ==
    store @@ (path :> data)

\* with open(path, "w") as f: json.dump(data, f)
dump(store, path, data) ==
    (path :> data) @@ store

\* deploy, the check of the version that is already there
DeployCheck(c) ==
    /\ calls[c].pc = "check"
    /\ LET call == calls[c]
           manifest_id == get_manifest_id(call.manifest)
           new_hash == compute_hash(call.manifest)
           returns(status) ==
               /\ calls' = [calls EXCEPT ![c].pc = "done", ![c].status = status]
               /\ result' = Call(call.manifest, call.force, call.layer, call.agency,
                                 status, FALSE, NoVersion)
       IN  \E existing \in get_deployed(records, latest, manifest_id, call.manifest.version) :
               IF existing # NoneRec /\ existing.content_hash = new_hash
               THEN returns("SKIPPED")
               ELSE IF existing # NoneRec /\ ~call.force
               THEN returns("GOVERNANCE_VIOLATION")
               ELSE /\ calls' = [calls EXCEPT ![c].pc = "previous"]
                    /\ UNCHANGED result
    /\ UNCHANGED <<records, latest, now, everForced>>
    /\ UNCHANGED execVars

\* deploy, the read of the latest pointer before the write
DeployPrevious(c) ==
    /\ calls[c].pc = "previous"
    /\ \E previous_version \in
             get_deployed_version(records, latest, get_manifest_id(calls[c].manifest)) :
           calls' = [calls EXCEPT ![c].pc = "write",
                                  ![c].previous_version = previous_version]
    /\ UNCHANGED <<records, latest, now, result, everForced>>
    /\ UNCHANGED execVars

\* deploy, the write of the version record
DeployWrite(c) ==
    /\ calls[c].pc = "write"
    /\ now' = now + 1
    /\ LET call == calls[c]
           record == ManifestVersionRecord(call.manifest, call.layer, call.agency, now',
                                           call.previous_version)
       IN  /\ records' = dump(records, VersionPathOf(call), record)
           /\ calls' = [calls EXCEPT ![c].pc = "pointer", ![c].deployed_at = now']
    /\ UNCHANGED <<latest, result, everForced>>
    /\ UNCHANGED execVars

\* deploy, the second read of the latest pointer and the comparison with it
DeployLatest(c) ==
    /\ calls[c].pc = "pointer"
    /\ LET call == calls[c]
           manifest_id == get_manifest_id(call.manifest)
       IN  \E current_latest \in get_deployed_version(records, latest, manifest_id) :
               calls' = [calls EXCEPT
                            ![c].pc = "update",
                            ![c].should_update_latest =
                                \/ current_latest = NoVersion
                                \/ compare_versions(call.manifest.version, current_latest) > 0]
    /\ UNCHANGED <<records, latest, now, result, everForced>>
    /\ UNCHANGED execVars

\* deploy, the update of the latest pointer and the return
DeployPointer(c) ==
    /\ calls[c].pc = "update"
    /\ now' = now + 1
    /\ LET call == calls[c]
           manifest_id == get_manifest_id(call.manifest)
           ptr == get_latest_pointer_path(manifest_id, call.layer, call.agency)
       IN  /\ latest' = IF call.should_update_latest
                        THEN dump(latest, ptr, [version |-> call.manifest.version,
                                                updated_at |-> now'])
                        ELSE latest
           /\ result' = Call(call.manifest, call.force, call.layer, call.agency,
                             "DEPLOYED", call.should_update_latest, call.previous_version)
    /\ calls' = [calls EXCEPT ![c].pc = "done", ![c].status = "DEPLOYED"]
    /\ UNCHANGED <<records, everForced>>
    /\ UNCHANGED execVars

\* two processes call deploy on an empty store at the same time
RaceInit ==
    /\ records = EmptyFn
    /\ latest = EmptyFn
    /\ now = 0
    /\ result = [op |-> "none"]
    /\ calls \in [Callers ->
                     {DeployCall(Manifest(name, version, "python", body), force, layer, agency) :
                        name \in StoreIds, version \in StoreVersions, body \in Bodies,
                        force \in BOOLEAN, layer \in LayerArgs, agency \in AgencyArgs}]
    /\ everForced = \E c \in Callers : calls[c].force
    /\ ExecIdle
    /\ env = [glob_raises |-> FALSE, faults |-> FALSE, max_runs |-> 0]

RaceNext ==
    \/ \E c \in Callers : DeployCheck(c)
    \/ \E c \in Callers : DeployPrevious(c)
    \/ \E c \in Callers : DeployWrite(c)
    \/ \E c \in Callers : DeployLatest(c)
    \/ \E c \in Callers : DeployPointer(c)

SpecRace == RaceInit /\ [][RaceNext]_vars

\* ------------------------------------------------- manifest store: claims

TargetPath(call) ==
    get_version_path(get_manifest_id(call.manifest), call.manifest.version,
                     call.layer, call.agency)

DeployedVersions(recs, dir, manifest_id) ==
    {p[3] : p \in {q \in DOMAIN recs : q[1] = dir /\ q[2] = manifest_id}}

\* C1: as long as no deploy call was forced, a record stored under
\* (layer, agency, manifest id, version) keeps its manifest content and its
\* content_hash through every later deploy call and is never removed.
CE_C1 ==
    [][~everForced' =>
         \A p \in DOMAIN records :
            /\ p \in DOMAIN records'
            /\ records'[p].manifest = records[p].manifest
            /\ records'[p].content_hash = records[p].content_hash]_vars

\* C2: a deploy with force=false of a (manifest id, version) that is already
\* stored with a different content hash raises the governance violation and
\* leaves the version record and the latest pointer unchanged.
CE_C2 ==
    [][(/\ result'.op = "deploy"
        /\ ~result'.force
        /\ TargetPath(result') \in DOMAIN records
        /\ records[TargetPath(result')].content_hash # compute_hash(result'.manifest))
       => (/\ result'.status = "GOVERNANCE_VIOLATION"
           /\ records' = records
           /\ latest' = latest)]_vars

\* C3: a deploy of a (manifest id, version) that is already stored with the
\* same content hash returns SKIPPED and writes nothing: the version record
\* (deployed_at and previous_version included) and the latest pointer are
\* the same before and after.
CE_C3 ==
    [][(/\ result'.op = "deploy"
        /\ TargetPath(result') \in DOMAIN records
        /\ records[TargetPath(result')].content_hash = compute_hash(result'.manifest))
       => (/\ result'.status = "SKIPPED"
           /\ records' = records
           /\ latest' = latest)]_vars

PointerIsGreatest(recs, ptrs) ==
    \A dir \in {p[1] : p \in DOMAIN recs}, manifest_id \in {p[2] : p \in DOMAIN recs} :
        DeployedVersions(recs, dir, manifest_id) # {} =>
            /\ <<dir, manifest_id>> \in DOMAIN ptrs
            /\ ptrs[<<dir, manifest_id>>].version \in DeployedVersions(recs, dir, manifest_id)
            /\ \A v \in DeployedVersions(recs, dir, manifest_id) :
                  compare_versions(v, ptrs[<<dir, manifest_id>>].version) <= 0

\* C4: after any sequence of successful deploys the latest pointer of a
\* manifest identity names its greatest deployed version, and a deploy of a
\* version lower than the current pointer stores the record and leaves the
\* pointer unchanged.
CE_C4 ==
    [][/\ PointerIsGreatest(records', latest')
       /\ (/\ result'.op = "deploy"
           /\ result'.status = "DEPLOYED"
           /\ get_latest_pointer_path(get_manifest_id(result'.manifest),
                                      result'.layer, result'.agency) \in DOMAIN latest
           /\ compare_versions(result'.manifest.version,
                 latest[get_latest_pointer_path(get_manifest_id(result'.manifest),
                                                result'.layer, result'.agency)].version) < 0)
          => (/\ latest' = latest
              /\ TargetPath(result') \in DOMAIN records')]_vars

\* C19: manifest identities are scoped by (layer, agency): a deploy is skipped
\* or refused only because of a record of that version in the scope it
\* writes, and the previous_version it reads is the latest pointer of the
\* scope it writes (every deploy so far named its layer and agency).
CE_C19 ==
    [][(/\ result'.op = "deploy"
        /\ result'.layer # NoLayer
        /\ \A p \in DOMAIN records : p[1] # FlatDir) =>
         LET ptr == get_latest_pointer_path(get_manifest_id(result'.manifest),
                                            result'.layer, result'.agency)
         IN  /\ result'.status \in {"SKIPPED", "GOVERNANCE_VIOLATION"} =>
                    TargetPath(result') \in DOMAIN records
             /\ result'.status = "DEPLOYED" =>
                    result'.previous_version =
                        IF ptr \in DOMAIN latest THEN latest[ptr].version ELSE NoVersion]_vars

\* ----------------------------------------------- sequence counter, evidence

NoUtid == 0
NoManifest == "None"
NoDoc == <<>>
UnknownDoc == <<"unknown">>
NoFile == <<>>
NoError == ""

\* dict.get(key, default)
Get(rec, key, default) == IF key \in DOMAIN rec THEN rec[key] ELSE default

\* the evidence side of a process while one handler runs: the files, the
\* sequence files, the file-name cache, the clock, the status history, the
\* path the last lookup returned and the exception that is propagating
Evidence(fs, sq, ch, t, h) ==
    [files |-> fs, seq |-> sq, cache |-> ch, now |-> t, hist |-> h,
     path |-> NoFile, exc |-> NoError]

\* sequence_counter._load_seq: 0 for a store without entry in _SEQ_FILES and
\* for a store whose .seq file does not exist
load_seq(sq, store) == IF store \in DOMAIN sq THEN sq[store] ELSE 0

\* sequence_counter.next_seq: load, add one, save; _save_seq writes nothing
\* for a store without entry in _SEQ_FILES
next_seq(sq, store) ==
    IF store \in DOMAIN sq THEN [sq EXCEPT ![store] = load_seq(sq, store) + 1] ELSE sq

\* <record_type>_<seq:04d>_<manifest_id>_v<version>.json
SeqName(record_type, n, manifest_id, version) == <<record_type, n, manifest_id, version>>

\* <utid>.json
UtidName(utid) == <<"utid", utid, NoManifest, NoVersion>>

\* the files the glob <record_type>_*_<manifest_id or '*'>*.json yields
GlobRecords(fs, record_type, manifest_id) ==
    {f \in DOMAIN fs : /\ f[1] = record_type
                       /\ (manifest_id = NoManifest \/ f[3] = manifest_id)}

\* _get_record_path that neither remembers nor looks up the file of a UTID
get_record_path_unmemoized(es, utid, manifest_id, version, record_type, create_new) ==
    IF create_new /\ manifest_id # NoManifest /\ version # NoVersion
    THEN LET sq == next_seq(es.seq, record_type)
         IN  {[es EXCEPT !.seq = sq,
                         !.path = SeqName(record_type, sq[record_type], manifest_id, version)]}
    ELSE {[es EXCEPT !.path = UtidName(utid)]}

\* EvidenceStore._get_record_path: the set of outcomes, one per order in
\* which the glob can yield the files
get_record_path(es, utid, manifest_id, version, record_type, create_new) ==
    IF utid \in DOMAIN es.cache
    THEN {[es EXCEPT !.path = es.cache[utid]]}
    ELSE IF DOMAIN es.files # {} /\ manifest_id = NoManifest /\ env.glob_raises
    THEN {[es EXCEPT !.exc = "ValueError"]}
    ELSE LET hits == {f \in GlobRecords(es.files, record_type, manifest_id) :
                         Get(es.files[f], "utid", NoUtid) = utid}
         IN  IF hits # {}
             THEN {[es EXCEPT !.path = f, !.cache = (utid :> f) @@ es.cache] : f \in hits}
             ELSE IF create_new /\ manifest_id # NoManifest /\ version # NoVersion
             THEN LET sq == next_seq(es.seq, record_type)
                      name == SeqName(record_type, sq[record_type], manifest_id, version)
                  IN  {[es EXCEPT !.seq = sq, !.path = name,
                                  !.cache = (utid :> name) @@ es.cache]}
             ELSE {[es EXCEPT !.path = UtidName(utid)]}

RecordType(data) ==
    LET layer == Get(data, "layer", "curation")
    IN  IF layer \in {"semantic", "semantics"} THEN "semantic" ELSE layer

Without(rec, key) == [k \in DOMAIN rec \ {key} |-> rec[k]]

\* the status history: a write that carries a status appends the status the
\* file holds after the write
Logged(h, utid, data, stored) ==
    IF "status" \in DOMAIN data
    THEN (utid :> Append(Get(h, utid, <<>>), stored.status)) @@ h
    ELSE h

\* write_uir with the merge the other way round: the fields already in the
\* file win over the new data
write_uir_existing_wins(es, utid, data, manifest_id, version) ==
    LET mid == IF manifest_id # NoManifest THEN manifest_id
               ELSE Get(data, "manifest_id", NoManifest)
        ver == IF version # NoVersion THEN version
               ELSE Get(data, "manifest_version", NoVersion)
        write(e) ==
            LET existing == IF e.path \in DOMAIN e.files THEN e.files[e.path] ELSE EmptyFn
                t == e.now + 1
                merged == existing @@ [utid |-> utid, updated_at |-> t] @@ data
                created == merged @@ [created_at |-> t]
                ordered == IF Get(created, "doc_id", NoDoc) = NoDoc
                           THEN Without(created, "doc_id") ELSE created
            IN  [e EXCEPT !.files = (e.path :> ordered) @@ e.files,
                          !.now = t,
                          !.hist = Logged(e.hist, utid, data, ordered)]
    IN  {IF e.exc # NoError THEN e ELSE write(e) :
            e \in get_record_path(es, utid, mid, ver, RecordType(data), TRUE)}

\* EvidenceStore.write_uir
write_uir(es, utid, data, manifest_id, version) ==
    LET mid == IF manifest_id # NoManifest THEN manifest_id
               ELSE Get(data, "manifest_id", NoManifest)
        ver == IF version # NoVersion THEN version
               ELSE Get(data, "manifest_version", NoVersion)
        write(e) ==
            LET existing == IF e.path \in DOMAIN e.files THEN e.files[e.path] ELSE EmptyFn
                t == e.now + 1
                merged == [utid |-> utid, updated_at |-> t] @@ data @@ existing
                created == merged @@ [created_at |-> t]
                ordered == IF Get(created, "doc_id", NoDoc) = NoDoc
                           THEN Without(created, "doc_id") ELSE created
            IN  [e EXCEPT !.files = (e.path :> ordered) @@ e.files,
                          !.now = t,
                          !.hist = Logged(e.hist, utid, data, ordered)]
    IN  {IF e.exc # NoError THEN e ELSE write(e) :
            e \in get_record_path(es, utid, mid, ver, RecordType(data), TRUE)}

\* EvidenceStore.read_uir: the set of <<record or NoneRec, evidence>> outcomes
read_uir(es, utid) ==
    {<<IF e.exc = NoError /\ e.path \in DOMAIN e.files THEN e.files[e.path] ELSE NoneRec, e>> :
        e \in get_record_path(es, utid, NoManifest, NoVersion, "curation", FALSE)}

\* f"{status.lower()}_at"
StatusAt(status) ==
    CASE status = "QUEUED" -> "queued_at"
      [] status = "STARTED" -> "started_at"
      [] status = "SUCCESS" -> "success_at"
      [] status = "FAILURE" -> "failure_at"
      [] OTHER -> "status_at"

\* EvidenceStore.update_status(utid, status, **extra)
update_status(es, utid, status, extra) ==
    IF es.exc # NoError THEN {es}
    ELSE write_uir(es, utid, [status |-> status] @@ (StatusAt(status) :> es.now + 1) @@ extra,
                   NoManifest, NoVersion)

\* a write_bom that stores nothing
write_bom_skipped(es, utid, bom) ==
    {es}

\* EvidenceStore.write_bom
write_bom(es, utid, bom) ==
    IF es.exc # NoError THEN {es}
    ELSE write_uir(es, utid, [bom |-> bom], NoManifest, NoVersion)

\* ------------------------------------------------------ runnable manifests

Component(path, version) == [path |-> path, version |-> version]

ProcessingStep(step_name, path, version) ==
    [step_name |-> step_name, component |-> Component(path, version)]

\* the 'intent' and 'evolution' blocks of a curation manifest
CurationBody(schema, steps) ==
    [layer |-> "curation", schema |-> schema, engine_version |-> V100,
     ingestion |-> Component("ingest_default", V100), processing |-> steps]

DefaultSteps ==
    <<ProcessingStep("parse", "csv_parser", V100),
      ProcessingStep("enrich", "enrich_state", V100),
      ProcessingStep("write", "fact_store_writer", V100)>>

\* the steps of a manifest for the python_spark engine, which has no
\* enrich_state component
SparkSteps ==
    <<ProcessingStep("parse", "csv_parser", V100),
      ProcessingStep("write", "fact_store_writer", V100)>>

\* parser modules onboarded into the control-plane registry: <<layer, major>>
InstalledParsers == {<<"curation", 2>>, <<"semantics", 1>>, <<"retrieval", 1>>}

\* curation_engine/<engine>/interpreter.py modules that exist
InterpreterModules == {"python", "python_spark"}

\* parser_registry.get_parser(layer, manifest): the exception it raises, if any
get_parser(layer, manifest) ==
    IF <<layer, manifest.body.schema>> \in InstalledParsers THEN NoError ELSE "ImportError"

\* ManifestStore.get_manifest_for_execution: the manifests it can return,
\* NoneRec standing for the ValueError
get_manifest_for_execution(recs, ptrs, manifest_id, version) ==
    {IF d = NoneRec THEN NoneRec ELSE d.manifest : d \in get_deployed(recs, ptrs, manifest_id, version)}

\* the ValueError get_manifest_for_execution raises: with a version asked
\* for, its message ends with the list get_all_versions returns; without
\* one, the message is "not deployed. Run deploy.py first." and has no list
not_deployed_error(recs, manifest_id, version) ==
    IF version # NoVersion
    THEN {[exc |-> "ValueError", listed |-> TRUE, versions |-> vs] :
             vs \in get_all_versions(recs, manifest_id)}
    ELSE {[exc |-> "ValueError", listed |-> FALSE, versions |-> <<>>]}

\* ---------------------------------------------------------------- executions

NoData == 0 - 1

Context ==
    [doc_id |-> NoDoc, ingested_file |-> NoFile, parsed_data |-> NoData,
     raw_source_utid |-> NoUtid]

NoBom == [components_used |-> <<>>, execution_log |-> <<>>]

Run(kind, flow, manifest_id, version, source_utid, pc) ==
    [kind |-> kind, flow |-> flow, manifest_id |-> manifest_id, version |-> version,
     source_utid |-> source_utid, pc |-> pc, k |-> 0, engine |-> "",
     manifest |-> NoneRec, ctx |-> Context, bom |-> NoBom,
     outcome |-> [status |-> "NONE"]]

Cur == Evidence(files, seq, cache, now, hist)

Commit(e) ==
    /\ files' = e.files
    /\ seq' = e.seq
    /\ cache' = e.cache
    /\ now' = e.now
    /\ hist' = e.hist

\* mint_utid(): a value no execution carries yet
Fresh == Cardinality(DOMAIN runs) + 1

CanMint == Cardinality(DOMAIN runs) < env.max_runs

Idle == active = NoUtid

\* trigger_curation_job that mints and queues whether or not the manifest
\* is deployed
trigger_curation_job_unvalidated(es, utid, manifest_id, version) ==
    UNION {write_uir(es, utid,
                     [status |-> "QUEUED", layer |-> "curation",
                      manifest_id |-> manifest_id,
                      manifest_version |-> IF deployed = NoneRec THEN V100
                                           ELSE deployed.version,
                      content_hash |-> IF deployed = NoneRec THEN <<"sha">>
                                       ELSE deployed.content_hash],
                     NoManifest, NoVersion) :
           deployed \in get_deployed(records, latest, manifest_id, version)}

\* publisher.trigger_curation_job, the utid being the one mint_utid() returns
trigger_curation_job(es, utid, manifest_id, version) ==
    UNION {IF deployed = NoneRec THEN {[es EXCEPT !.exc = "ValueError"]}
           ELSE write_uir(es, utid,
                          [status |-> "QUEUED", layer |-> "curation",
                           manifest_id |-> manifest_id,
                           manifest_version |-> deployed.version,
                           content_hash |-> deployed.content_hash],
                          NoManifest, NoVersion) :
           deployed \in get_deployed(records, latest, manifest_id, version)}

\* trigger.run_manifest up to the dispatch: lines 71-75
RunManifest(manifest_id, version) ==
    /\ Idle
    /\ CanMint
    /\ \E e \in trigger_curation_job(Cur, Fresh, manifest_id, version) :
          IF e.exc # NoError
          THEN /\ result' = [op |-> "run_manifest", status |-> "TRIGGER_FAILED"]
               /\ UNCHANGED <<files, seq, cache, now, hist, runs, active>>
          ELSE /\ Commit(e)
               /\ runs' = (Fresh :> Run("curation", "run_manifest", manifest_id, version,
                                        NoUtid, "dispatch")) @@ runs
               /\ active' = Fresh
               /\ result' = [op |-> "trigger_curation_job", utid |-> Fresh]
    /\ UNCHANGED <<records, latest, everForced, calls, raw, facts, semstore, env>>

\* CurationInterpreter.__init__ with the STARTED write moved to its top
interpreter_init_started_first(es, utid, manifest_id, version, engine_type) ==
    UNION {UNION {IF e.exc # NoError THEN {e}
                  ELSE IF manifest = NoneRec THEN {[e EXCEPT !.exc = "ValueError"]}
                  ELSE IF get_parser("curation", manifest) # NoError
                  THEN {[e EXCEPT !.exc = get_parser("curation", manifest)]}
                  ELSE IF manifest.engine # engine_type THEN {[e EXCEPT !.exc = "ValueError"]}
                  ELSE {e} :
                  e \in update_status(es, utid, "STARTED", [engine |-> engine_type])} :
           manifest \in get_manifest_for_execution(records, latest, manifest_id, version)}

\* CurationInterpreter.__init__ without the comparison of the manifest's
\* engine with ENGINE_TYPE
interpreter_init_any_engine(es, utid, manifest_id, version, engine_type) ==
    UNION {IF manifest = NoneRec THEN {[es EXCEPT !.exc = "ValueError"]}
           ELSE IF get_parser("curation", manifest) # NoError
           THEN {[es EXCEPT !.exc = get_parser("curation", manifest)]}
           ELSE update_status(es, utid, "STARTED",
                              [engine |-> manifest.engine,
                               engine_version |-> manifest.body.engine_version,
                               manifest_version |-> manifest.version]) :
           manifest \in get_manifest_for_execution(records, latest, manifest_id, version)}

\* CurationInterpreter.__init__ of the interpreter module engine_type: the
\* evidence outcomes, exc naming the exception that leaves the constructor
interpreter_init(es, utid, manifest_id, version, engine_type) ==
    UNION {IF manifest = NoneRec THEN {[es EXCEPT !.exc = "ValueError"]}
           ELSE IF get_parser("curation", manifest) # NoError
           THEN {[es EXCEPT !.exc = get_parser("curation", manifest)]}
           ELSE IF manifest.engine # engine_type THEN {[es EXCEPT !.exc = "ValueError"]}
           ELSE update_status(es, utid, "STARTED",
                              [engine |-> manifest.engine,
                               engine_version |-> manifest.body.engine_version,
                               manifest_version |-> manifest.version]) :
           manifest \in get_manifest_for_execution(records, latest, manifest_id, version)}

Hydrated(manifest_id, version) ==
    CHOOSE m \in get_manifest_for_execution(records, latest, manifest_id, version) : TRUE

\* the bom dictionary run() starts with
InitialBom(utid, run) ==
    IF run.source_utid # NoUtid
    THEN [utid |-> utid] @@ NoBom @@ [replay_mode |-> TRUE, source_utid |-> run.source_utid]
    ELSE [utid |-> utid] @@ NoBom

\* the constructor has run: the execution enters run(), or the exception ends it
Constructed(utid, e, engine_type) ==
    /\ Commit(e)
    /\ IF e.exc # NoError
       THEN /\ runs' = [runs EXCEPT ![utid].pc = "crashed",
                                    ![utid].outcome = [status |-> "RAISED", error |-> e.exc]]
            /\ result' = [op |-> "execute", utid |-> utid, engine_type |-> engine_type,
                          status |-> "RAISED"]
       ELSE /\ runs' = [runs EXCEPT ![utid].pc = "ingest",
                                    ![utid].engine = engine_type,
                                    ![utid].manifest =
                                        Hydrated(runs[utid].manifest_id, runs[utid].version),
                                    ![utid].bom = InitialBom(utid, runs[utid])]
            /\ result' = [op |-> "init", utid |-> utid, engine_type |-> engine_type,
                          status |-> "STARTED"]
    /\ active' = IF e.exc # NoError THEN NoUtid ELSE utid

\* trigger.run_manifest lines 77-92: load the manifest, pick the interpreter
\* module by the manifest's engine, construct the interpreter
Dispatch ==
    /\ active # NoUtid
    /\ runs[active].pc = "dispatch"
    /\ LET run == runs[active]
       IN  \E manifest \in get_manifest_for_execution(records, latest,
                                                      run.manifest_id, run.version) :
           IF manifest = NoneRec \/ get_parser("curation", manifest) # NoError
           THEN /\ runs' = [runs EXCEPT ![active].pc = "crashed",
                                        ![active].outcome = [status |-> "RAISED",
                                                             error |-> "ImportError"]]
                /\ result' = [op |-> "run_manifest", utid |-> active, status |-> "RAISED"]
                /\ active' = NoUtid
                /\ UNCHANGED <<files, seq, cache, now, hist>>
           ELSE IF manifest.engine \notin InterpreterModules
           THEN /\ runs' = [runs EXCEPT ![active].pc = "returned",
                                        ![active].outcome = [status |-> "ENGINE_NOT_FOUND"]]
                /\ result' = [op |-> "run_manifest", utid |-> active,
                              status |-> "ENGINE_NOT_FOUND"]
                /\ active' = NoUtid
                /\ UNCHANGED <<files, seq, cache, now, hist>>
           ELSE \E e \in interpreter_init(Cur, active, run.manifest_id, run.version,
                                          manifest.engine) :
                   Constructed(active, e, manifest.engine)
    /\ UNCHANGED <<records, latest, everForced, calls, raw, facts, semstore, env>>

\* ---------------------------------------------------- curation components

\* what a component works on: the raw and fact stores, the sequence files
\* and the execution context
World(rw, fc, sq, ctx) == [raw |-> rw, facts |-> fc, seq |-> sq, ctx |-> ctx]

Returned(w, message) == [ok |-> TRUE, message |-> message, w |-> w]

Raised(w, error) == [ok |-> FALSE, message |-> error, w |-> w]

\* sequence_counter.format_filename for the raw and fact stores
format_filename(store, n, utid) == <<store, n, utid>>

\* what the environment hands to a component: whether the wild source file
\* and the reference data exist, and how many rows the source has
Inputs ==
    IF env.faults
    THEN [source_exists : BOOLEAN, rows : {0, 1}, reference_data : BOOLEAN]
    ELSE {[source_exists |-> TRUE, rows |-> 1, reference_data |-> TRUE]}

\* v1/ingest_default.run
ingest_default(w, utid, run, input) ==
    IF ~input.source_exists THEN Raised(w, "FileNotFoundError")
    ELSE LET sq == next_seq(w.seq, "raw")
             name == format_filename("raw", sq["raw"], utid)
             doc_id == <<"doc", utid>>
             metadata == [utid |-> utid, doc_id |-> doc_id,
                          manifest_id |-> run.manifest_id,
                          manifest_version |-> run.manifest.version,
                          record_count |-> input.rows]
         IN  Returned([w EXCEPT !.seq = sq,
                                !.raw = (name :> metadata) @@ w.raw,
                                !.ctx.ingested_file = name,
                                !.ctx.doc_id = doc_id],
                      "INGEST_SUCCESS")

\* csv_parser.run without the copy of the envelope's doc_id into the context
csv_parser_without_doc_id(w, utid, run, input) ==
    LET lookup_utid == IF w.ctx.raw_source_utid # NoUtid THEN w.ctx.raw_source_utid ELSE utid
        found == IF w.ctx.ingested_file # NoFile THEN {w.ctx.ingested_file}
                 ELSE {f \in DOMAIN w.raw : f[3] = lookup_utid}
    IN  IF found = {} THEN {Raised(w, "FileNotFoundError")}
        ELSE {Returned([w EXCEPT !.ctx.parsed_data = w.raw[f].record_count],
                       "PARSE_SUCCESS") : f \in found}

\* v1/csv_parser.run: one outcome per raw file the directory scan can stop at
csv_parser(w, utid, run, input) ==
    LET lookup_utid == IF w.ctx.raw_source_utid # NoUtid THEN w.ctx.raw_source_utid ELSE utid
        found == IF w.ctx.ingested_file # NoFile THEN {w.ctx.ingested_file}
                 ELSE {f \in DOMAIN w.raw : f[3] = lookup_utid}
    IN  IF found = {} THEN {Raised(w, "FileNotFoundError")}
        ELSE {Returned([w EXCEPT !.ctx.doc_id = w.raw[f].doc_id,
                                 !.ctx.parsed_data = w.raw[f].record_count],
                       "PARSE_SUCCESS") : f \in found}

\* v1/enrich_state.run
enrich_state(w, utid, run, input) ==
    IF w.ctx.parsed_data <= 0 THEN Returned(w, "ENRICH_SKIPPED")
    ELSE IF ~input.reference_data THEN Raised(w, "ValueError")
    ELSE Returned(w, "ENRICH_SUCCESS")

\* v1/fact_store_writer.run
fact_store_writer(w, utid, run, input) ==
    IF w.ctx.parsed_data <= 0 THEN Returned(w, "WRITE_SKIPPED")
    ELSE LET sq == next_seq(w.seq, "fact")
             name == format_filename("fact", sq["fact"], utid)
             metadata == [utid |-> utid,
                          doc_id |-> IF w.ctx.doc_id = NoDoc THEN UnknownDoc ELSE w.ctx.doc_id,
                          manifest_id |-> run.manifest_id,
                          manifest_version |-> run.manifest.version,
                          record_count |-> w.ctx.parsed_data]
         IN  Returned([w EXCEPT !.seq = sq, !.facts = (name :> metadata) @@ w.facts],
                      "WRITE_SUCCESS")

\* ------------------------------------------------------- runtime resolver

\* RuntimeResolver.ENGINE_BASE_PATHS
ENGINE_BASE_PATHS == {"python", "python_spark", "python_duckdb"}

\* component paths that start with 'v' and a digit: "csv_parser" stands for
\* "v1.csv_parser.run", "v2.csv_parser" for "v2.csv_parser.run"
EngineRelativePaths ==
    {"ingest_default", "csv_parser", "enrich_state", "fact_store_writer",
     "validate_schema", "validate_quality", "field_mapper", "v2.csv_parser",
     "ingest_default._parse_csv", "missing"}

\* the other paths a manifest can carry: fully qualified module paths and
\* legacy lib.* paths
QualifiedPaths == {"python.csv_parser", "python_spark.csv_parser"}

LegacyPaths == {"lib.engines.curation.csv_parser", "lib.missing"}

\* the callables of the component modules with the version their
\* __mda_component__ metadata declares; NoVersion stands for a function that
\* carries no metadata
Museum ==
    [t \in ({"python"} \X {"ingest_default", "csv_parser", "enrich_state",
                            "fact_store_writer", "validate_schema",
                            "validate_quality", "field_mapper"})
           \cup ({"python_spark"} \X {"ingest_default", "csv_parser",
                                       "validate_quality", "fact_store_writer"})
           \cup ({"python_duckdb"} \X {"ingest_default", "csv_parser",
                                        "validate_quality"})
           \cup {<<"python", "v2.csv_parser">>, <<"python", "ingest_default._parse_csv">>}
       |-> IF t[2] = "v2.csv_parser" THEN V200
           ELSE IF t[2] = "ingest_default._parse_csv" THEN NoVersion
           ELSE V100]

\* RuntimeResolver._is_engine_relative_path
is_engine_relative_path(path) == path \in EngineRelativePaths

\* RuntimeResolver._expand_engine_relative_path, the engine being supported
expand_engine_relative_path(path, engine) == <<engine, path>>

\* RuntimeResolver._remap_legacy_path
remap_legacy_path(path) ==
    CASE path = "lib.engines.curation.csv_parser" -> <<"python", "csv_parser">>
      [] path = "lib.missing" -> <<"lib", "missing">>
      [] path = "python.csv_parser" -> <<"python", "csv_parser">>
      [] path = "python_spark.csv_parser" -> <<"python_spark", "csv_parser">>
      [] OTHER -> <<"", path>>

Resolved(func) == [ok |-> TRUE, error |-> NoError, func |-> func]

ResolveError(error, detail) == [ok |-> FALSE, error |-> error, detail |-> detail]

\* the dynamic import alone: the callable the path leads to, with no check
\* of its metadata
resolve_unvalidated(component_ref, engine) ==
    IF is_engine_relative_path(component_ref.path) /\ engine \notin ENGINE_BASE_PATHS
    THEN ResolveError("Unknown engine type", <<engine>>)
    ELSE LET resolved_path ==
                 IF is_engine_relative_path(component_ref.path)
                 THEN expand_engine_relative_path(component_ref.path, engine)
                 ELSE remap_legacy_path(component_ref.path)
         IN  IF resolved_path \notin DOMAIN Museum
             THEN ResolveError("MDA RESOLUTION FAILURE", <<component_ref.path>>)
             ELSE Resolved([path |-> resolved_path, version |-> Museum[resolved_path]])

\* RuntimeResolver.resolve_and_validate
resolve_and_validate(component_ref, engine) ==
    IF is_engine_relative_path(component_ref.path) /\ engine \notin ENGINE_BASE_PATHS
    THEN ResolveError("Unknown engine type", <<engine>>)
    ELSE LET resolved_path ==
                 IF is_engine_relative_path(component_ref.path)
                 THEN expand_engine_relative_path(component_ref.path, engine)
                 ELSE remap_legacy_path(component_ref.path)
         IN  IF resolved_path \notin DOMAIN Museum
             THEN ResolveError("MDA RESOLUTION FAILURE", <<component_ref.path>>)
             ELSE IF Museum[resolved_path] = NoVersion
             THEN ResolveError("MDA GOVERNANCE FAILURE", <<component_ref.path>>)
             ELSE IF Museum[resolved_path] # component_ref.version
             THEN ResolveError("MDA VERSION MISMATCH",
                               <<component_ref.version, Museum[resolved_path]>>)
             ELSE Resolved([path |-> resolved_path, version |-> Museum[resolved_path]])

\* the call RuntimeResolver.resolve_and_validate(component_ref, engine) alone
ResolveAndValidate ==
    /\ result.op = "component_ref"
    /\ result' = [op |-> "resolve_and_validate",
                  component_ref |-> result.component_ref, engine |-> result.engine,
                  outcome |-> resolve_and_validate(result.component_ref, result.engine)]
    /\ UNCHANGED <<records, latest, now, everForced, calls>>
    /\ UNCHANGED execVars

\* RuntimeResolver.resolve_and_validate followed by the call of the component
Invoke(component, w, utid, run, input) ==
    LET bound == resolve_and_validate(component, run.engine)
    IN  IF ~bound.ok THEN {Raised(w, bound.error)}
        ELSE CASE bound.func.path[2] = "ingest_default" ->
                      {ingest_default(w, utid, run, input)}
               [] bound.func.path[2] = "csv_parser" -> csv_parser(w, utid, run, input)
               [] bound.func.path[2] = "enrich_state" -> {enrich_state(w, utid, run, input)}
               [] bound.func.path[2] = "fact_store_writer" ->
                      {fact_store_writer(w, utid, run, input)}
               [] OTHER -> {Returned(w, "SUCCESS"), Raised(w, "ValueError")}

\* --------------------------------------------------- curation interpreter

BomEntry(step, component) ==
    [step |-> step, path |-> component.path, version |-> component.version]

LogEntry(step, status, message) == [step |-> step, status |-> status, result |-> message]

Used(bom, entry, log) ==
    [bom EXCEPT !.components_used = Append(@, entry),
                !.execution_log = Append(@, log)]

\* the BOM entry of the ingestion a replay skips
ReplayEntry(source_utid) ==
    [step |-> "ingestion", path |-> "REPLAY_MODE", version |-> <<NonNum>>,
     source_utid |-> source_utid]

\* what the last step of run() did: step 0 is the ingestion, step k the k-th
\* processing step; ok is FALSE when resolving or invoking it raised
Invoked(utid, step, ok, message) ==
    [op |-> "invoke", utid |-> utid, step |-> step, ok |-> ok, message |-> message]

DocIdOf(ctx) == IF ctx.doc_id = NoDoc THEN UnknownDoc ELSE ctx.doc_id

\* run() without the except block: the exception leaves run() and nothing
\* is stored
FailurePropagates(utid, w, bom, error) ==
    /\ raw' = w.raw
    /\ facts' = w.facts
    /\ seq' = w.seq
    /\ runs' = [runs EXCEPT ![utid].pc = "crashed",
                            ![utid].ctx = w.ctx,
                            ![utid].outcome = [status |-> "RAISED", error |-> error]]
    /\ active' = NoUtid
    /\ UNCHANGED <<files, cache, now, hist>>

\* run(), the except block: the failed BOM and the FAILURE status are stored
\* and the FAILURE result is returned
Failure(utid, w, bom, error) ==
    LET failed == [doc_id |-> DocIdOf(w.ctx), status |-> "FAILURE", error |-> error] @@ bom
    IN  \E e1 \in write_bom([Cur EXCEPT !.seq = w.seq], utid, failed) :
        \E e2 \in update_status(e1, utid, "FAILURE",
                                [error |-> error, doc_id |-> failed.doc_id]) :
           /\ Commit(e2)
           /\ raw' = w.raw
           /\ facts' = w.facts
           /\ runs' = [runs EXCEPT ![utid].pc = IF e2.exc = NoError THEN "done" ELSE "crashed",
                                   ![utid].ctx = w.ctx,
                                   ![utid].bom = failed,
                                   ![utid].outcome =
                                       IF e2.exc = NoError
                                       THEN [status |-> "FAILURE", utid |-> utid, error |-> error]
                                       ELSE [status |-> "RAISED", error |-> e2.exc]]
           /\ active' = NoUtid

\* a component returned: the BOM grows and run() goes on
Proceed(utid, w, bom, pc, k) ==
    /\ raw' = w.raw
    /\ facts' = w.facts
    /\ seq' = w.seq
    /\ runs' = [runs EXCEPT ![utid].pc = pc, ![utid].k = k, ![utid].ctx = w.ctx,
                            ![utid].bom = bom]
    /\ UNCHANGED <<files, cache, now, hist, active>>

AfterIngestion(run) == IF Len(run.manifest.body.processing) = 0 THEN "complete" ELSE "process"

\* the ingestion phase without the replay branch
IngestInReplay ==
    /\ active # NoUtid
    /\ runs[active].pc = "ingest"
    /\ LET run == runs[active]
           w == World(raw, facts, seq, run.ctx)
       IN  \E input \in Inputs :
           \E out \in Invoke(run.manifest.body.ingestion, w, active, run, input) :
              /\ IF out.ok
                 THEN Proceed(active, out.w,
                              Used(run.bom,
                                   BomEntry("ingestion", run.manifest.body.ingestion),
                                   LogEntry("ingestion", "SUCCESS", out.message)),
                              AfterIngestion(run), 0)
                 ELSE Failure(active, out.w, run.bom, out.message)
              /\ result' = Invoked(active, 0, out.ok, out.message)
    /\ UNCHANGED <<records, latest, everForced, calls, semstore, env>>

\* run(): the ingestion phase
Ingest ==
    /\ active # NoUtid
    /\ runs[active].pc = "ingest"
    /\ LET run == runs[active]
           w == World(raw, facts, seq, run.ctx)
       IN  IF run.source_utid # NoUtid
           THEN /\ Proceed(active, [w EXCEPT !.ctx.raw_source_utid = run.source_utid],
                           Used(run.bom, ReplayEntry(run.source_utid),
                                LogEntry("ingestion", "SKIPPED_REPLAY", "REPLAY")),
                           AfterIngestion(run), 0)
                /\ result' = Invoked(active, 0, TRUE, "REPLAY")
           ELSE \E input \in Inputs :
                \E out \in Invoke(run.manifest.body.ingestion, w, active, run, input) :
                   /\ IF out.ok
                      THEN Proceed(active, out.w,
                                   Used(run.bom,
                                        BomEntry("ingestion", run.manifest.body.ingestion),
                                        LogEntry("ingestion", "SUCCESS", out.message)),
                                   AfterIngestion(run), 0)
                      ELSE Failure(active, out.w, run.bom, out.message)
                   /\ result' = Invoked(active, 0, out.ok, out.message)
    /\ UNCHANGED <<records, latest, everForced, calls, semstore, env>>

\* an iteration of the processing loop that hands the step a new context
ProcessFreshContext ==
    /\ active # NoUtid
    /\ runs[active].pc = "process"
    /\ LET run == runs[active]
           step == run.manifest.body.processing[run.k + 1]
           w == World(raw, facts, seq, Context)
       IN  \E input \in Inputs :
           \E out \in Invoke(step.component, w, active, run, input) :
              /\ IF out.ok
                 THEN Proceed(active, out.w,
                              Used(run.bom, BomEntry(step.step_name, step.component),
                                   LogEntry(step.step_name, "SUCCESS", out.message)),
                              IF run.k + 1 = Len(run.manifest.body.processing)
                              THEN "complete" ELSE "process",
                              run.k + 1)
                 ELSE Failure(active, out.w, run.bom, out.message)
              /\ result' = Invoked(active, run.k + 1, out.ok, out.message)
    /\ UNCHANGED <<records, latest, everForced, calls, semstore, env>>

\* run(): one iteration of the processing loop
Process ==
    /\ active # NoUtid
    /\ runs[active].pc = "process"
    /\ LET run == runs[active]
           step == run.manifest.body.processing[run.k + 1]
           w == World(raw, facts, seq, run.ctx)
       IN  \E input \in Inputs :
           \E out \in Invoke(step.component, w, active, run, input) :
              /\ IF out.ok
                 THEN Proceed(active, out.w,
                              Used(run.bom, BomEntry(step.step_name, step.component),
                                   LogEntry(step.step_name, "SUCCESS", out.message)),
                              IF run.k + 1 = Len(run.manifest.body.processing)
                              THEN "complete" ELSE "process",
                              run.k + 1)
                 ELSE Failure(active, out.w, run.bom, out.message)
              /\ result' = Invoked(active, run.k + 1, out.ok, out.message)
    /\ UNCHANGED <<records, latest, everForced, calls, semstore, env>>

\* the success block with the status stored before the BOM
CompleteStatusFirst ==
    /\ active # NoUtid
    /\ runs[active].pc = "complete"
    /\ LET run == runs[active]
           bom == [doc_id |-> DocIdOf(run.ctx), status |-> "SUCCESS"] @@ run.bom
       IN  \E e1 \in update_status(Cur, active, "SUCCESS", [doc_id |-> bom.doc_id]) :
           \E e2 \in write_bom(e1, active, bom) :
              /\ Commit(e2)
              /\ runs' = [runs EXCEPT ![active].pc = IF e2.exc = NoError THEN "done"
                                                     ELSE "crashed",
                                      ![active].bom = bom,
                                      ![active].outcome =
                                          IF e2.exc = NoError
                                          THEN [status |-> "SUCCESS", utid |-> active,
                                                bom |-> bom]
                                          ELSE [status |-> "RAISED", error |-> e2.exc]]
              /\ result' = [op |-> "execute", utid |-> active, status |-> "SUCCESS"]
              /\ active' = NoUtid
    /\ UNCHANGED <<records, latest, everForced, calls, raw, facts, semstore, env>>

\* run(): every step returned; the BOM and the SUCCESS status are stored
Complete ==
    /\ active # NoUtid
    /\ runs[active].pc = "complete"
    /\ LET run == runs[active]
           bom == [doc_id |-> DocIdOf(run.ctx), status |-> "SUCCESS"] @@ run.bom
       IN  \E e1 \in write_bom(Cur, active, bom) :
           \E e2 \in update_status(e1, active, "SUCCESS", [doc_id |-> bom.doc_id]) :
              /\ Commit(e2)
              /\ runs' = [runs EXCEPT ![active].pc = IF e2.exc = NoError THEN "done"
                                                     ELSE "crashed",
                                      ![active].bom = bom,
                                      ![active].outcome =
                                          IF e2.exc = NoError
                                          THEN [status |-> "SUCCESS", utid |-> active,
                                                bom |-> bom]
                                          ELSE [status |-> "RAISED", error |-> e2.exc]]
              /\ result' = [op |-> "execute", utid |-> active, status |-> "SUCCESS"]
              /\ active' = NoUtid
    /\ UNCHANGED <<records, latest, everForced, calls, raw, facts, semstore, env>>

\* ------------------------------------------------------------------ replay

\* the evidence files that carry a utid
EvidenceOf(fs, utid) == {f \in DOMAIN fs : Get(fs[f], "utid", NoUtid) = utid}

\* publisher.trigger_replay, the utid being the one mint_utid() returns
trigger_replay(es, utid, manifest_id, version, source_utid) ==
    UNION {IF deployed = NoneRec THEN {[es EXCEPT !.exc = "ValueError"]}
           ELSE write_uir(es, utid,
                          [status |-> "QUEUED", manifest_id |-> manifest_id,
                           manifest_version |-> version,
                           content_hash |-> deployed.content_hash,
                           replay_mode |-> TRUE, source_utid |-> source_utid],
                          NoManifest, NoVersion) :
           deployed \in get_deployed(records, latest, manifest_id, version)}

\* trigger.replay_manifest(source_utid): after the replay is minted and
\* queued, get_parser is called with the manifest alone and raises TypeError
ReplayManifest(source_utid) ==
    /\ Idle
    /\ CanMint
    /\ \E found \in read_uir(Cur, source_utid) :
       LET original == found[1]
           e0 == found[2]
       IN  IF e0.exc # NoError
           THEN /\ result' = [op |-> "replay_manifest", source_utid |-> source_utid,
                              utid |-> NoUtid, status |-> "RAISED"]
                /\ UNCHANGED <<files, seq, cache, now, hist, runs>>
           ELSE IF original = NoneRec
           THEN /\ result' = [op |-> "replay_manifest", source_utid |-> source_utid,
                              utid |-> NoUtid, status |-> "FAILED"]
                /\ cache' = e0.cache
                /\ UNCHANGED <<files, seq, now, hist, runs>>
           ELSE \E e \in trigger_replay(e0, Fresh, Get(original, "manifest_id", NoManifest),
                                        Get(original, "manifest_version", NoVersion),
                                        source_utid) :
                IF e.exc # NoError
                THEN /\ result' = [op |-> "replay_manifest", source_utid |-> source_utid,
                                   utid |-> NoUtid, status |-> "TRIGGER_FAILED"]
                     /\ cache' = e0.cache
                     /\ UNCHANGED <<files, seq, now, hist, runs>>
                ELSE /\ Commit(e)
                     /\ runs' = (Fresh :>
                                   [Run("curation", "replay_manifest", original.manifest_id,
                                        original.manifest_version, source_utid, "crashed")
                                    EXCEPT !.outcome = [status |-> "RAISED",
                                                        error |-> "TypeError"]]) @@ runs
                     /\ result' = [op |-> "replay_manifest", source_utid |-> source_utid,
                                   utid |-> Fresh, status |-> "RAISED"]
    /\ UNCHANGED <<records, latest, everForced, calls, raw, facts, semstore, active, env>>

\* EvidenceStore.list_all: the records of the files the glob utid-*.json
\* yields, which are the files named after their UTID
list_all(fs) == {fs[f] : f \in {g \in DOMAIN fs : g[1] = "utid"}}

\* EvidenceStore.find_first_success: the set of outcomes, one per order in
\* which the glob can yield records of equal created_at
find_first_success(fs, manifest_id, version) ==
    LET matching == {r \in list_all(fs) :
                        /\ Get(r, "manifest_id", NoManifest) = manifest_id
                        /\ Get(r, "manifest_version", NoVersion) = version
                        /\ Get(r, "status", "") = "SUCCESS"
                        /\ ~Get(r, "replay_mode", FALSE)}
    IN  IF matching = {} THEN {NoneRec}
        ELSE {r \in matching :
                 \A o \in matching : Get(r, "created_at", 0) <= Get(o, "created_at", 0)}

\* trigger.py <manifest_id> --replay-version <version>
ReplayVersion(manifest_id, version) ==
    \E original \in find_first_success(files, manifest_id, version) :
        IF original = NoneRec
        THEN /\ Idle
             /\ result' = [op |-> "replay_version", manifest_id |-> manifest_id,
                            version |-> version, status |-> "NOT_FOUND"]
             /\ UNCHANGED <<records, latest, now, everForced, calls, files, seq, cache, raw,
                             facts, semstore, runs, hist, active, env>>
        ELSE ReplayManifest(original.utid)

\* an orchestrator client calls publisher.trigger_replay with the manifest
\* and version of the execution it replays; the replay waits for an engine
Replay(source_utid) ==
    /\ Idle
    /\ CanMint
    /\ runs[source_utid].kind = "curation"
    /\ \E f \in EvidenceOf(files, source_utid) :
       \E e \in trigger_replay(Cur, Fresh, Get(files[f], "manifest_id", NoManifest),
                               Get(files[f], "manifest_version", NoVersion), source_utid) :
          IF e.exc # NoError
          THEN /\ result' = [op |-> "trigger_replay", status |-> "RAISED"]
               /\ UNCHANGED <<files, seq, cache, now, hist, runs>>
          ELSE /\ Commit(e)
               /\ runs' = (Fresh :> Run("curation", "trigger_replay", files[f].manifest_id,
                                        files[f].manifest_version, source_utid,
                                        "queued")) @@ runs
               /\ result' = [op |-> "trigger_replay", utid |-> Fresh, status |-> "QUEUED"]
    /\ UNCHANGED <<records, latest, everForced, calls, raw, facts, semstore, active, env>>

\* interpreter.execute(utid, manifest_id, version, source_utid) of the module
\* engine_type, for an execution that waits in the queue
Execute(utid, engine_type) ==
    /\ Idle
    /\ runs[utid].pc = "queued"
    /\ \E e \in interpreter_init(Cur, utid, runs[utid].manifest_id, runs[utid].version,
                                 engine_type) :
          Constructed(utid, e, engine_type)
    /\ UNCHANGED <<records, latest, everForced, calls, raw, facts, semstore, env>>

\* the process ends and the next command starts a new one
NewProcess ==
    /\ Idle
    /\ cache # EmptyFn
    /\ cache' = EmptyFn
    /\ result' = [op |-> "exit"]
    /\ UNCHANGED <<records, latest, now, everForced, calls, files, seq, raw, facts, semstore,
                   runs, hist, active, env>>

\* -------------------------------------------------- semantic and retrieval

SemanticBody(source_manifest_ref) ==
    [layer |-> "semantics", schema |-> 1, engine_version |-> V100,
     source |-> source_manifest_ref]

RetrievalBody(primary, secondary) ==
    [layer |-> "retrieval", schema |-> 1, engine_version |-> V100,
     primary |-> primary, secondary |-> secondary]

\* publisher.trigger_semantic_job, the utid being the one mint_utid() returns
trigger_semantic_job(es, utid, manifest_id, version) ==
    UNION {IF deployed = NoneRec THEN {[es EXCEPT !.exc = "ValueError"]}
           ELSE write_uir(es, utid,
                          [status |-> "QUEUED", layer |-> "semantics",
                           manifest_id |-> manifest_id,
                           manifest_version |-> deployed.version,
                           content_hash |-> deployed.content_hash],
                          NoManifest, NoVersion) :
           deployed \in get_deployed(records, latest, manifest_id, version)}

\* EvidenceStore.write_semantic: a new sequenced file for every call
write_semantic(es, utid, record) ==
    LET sq == next_seq(es.seq, "semantic")
        name == SeqName("semantic", sq["semantic"], record.manifest_id,
                        record.manifest_version)
        t == es.now + 1
        stored == [utid |-> utid, record_type |-> "semantic", executed_at |-> t,
                   created_at |-> t] @@ record
    IN  [es EXCEPT !.seq = sq, !.now = t,
                   !.files = (name :> stored) @@ es.files,
                   !.hist = Logged(es.hist, utid, record, stored)]

\* EvidenceStore.write_retrieval: a new sequenced file for every call
write_retrieval(es, utid, record) ==
    LET sq == next_seq(es.seq, "retrieval")
        name == SeqName("retrieval", sq["retrieval"], record.manifest_id,
                        record.manifest_version)
        t == es.now + 1
        stored == [utid |-> utid, record_type |-> "retrieval", executed_at |-> t,
                   created_at |-> t] @@ record
    IN  [es EXCEPT !.seq = sq, !.now = t,
                   !.files = (name :> stored) @@ es.files,
                   !.hist = Logged(es.hist, utid, record, stored)]

\* the newest envelope of a store whose manifest_id contains the reference:
\* the files are tried by descending sequence number
Latest(store, manifest_ref) ==
    LET matching == {f \in DOMAIN store : store[f].manifest_id = manifest_ref}
    IN  {f \in matching : \A g \in matching : g[2] <= f[2]}

\* semantic_engine.interpreter._find_latest_fact_for_manifest
find_latest_fact_for_manifest(source_manifest_ref) == Latest(facts, source_manifest_ref)

\* retrieval_engine.interpreter._find_latest_semantic_for_manifest
find_latest_semantic_for_manifest(manifest_ref) == Latest(semstore, manifest_ref)

\* where execute() of the semantic or the retrieval engine can raise after
\* its sources are bound: in the component it runs or when it opens its
\* output file
Phases == IF env.faults THEN {"none", "component", "output"} ELSE {"none"}

PhaseError(phase) == IF phase = "component" THEN "AttributeError" ELSE "OSError"

\* the fields execute() passes to write_semantic on either path
SemanticCommon(manifest) ==
    [manifest_id |-> manifest.name, manifest_version |-> manifest.version,
     source_manifest_ref |-> manifest.body.source, engine |-> manifest.engine]

\* execute() from its projection phase on, bound to one of the facts
semantic_project(es, utid, manifest, bound) ==
    {LET fact == facts[f]
         sq == next_seq(es.seq, "semantic_store")
         output == format_filename("semantic", sq["semantic_store"], utid)
         metadata == [utid |-> utid, doc_id |-> fact.doc_id,
                      curation_utid |-> fact.utid, manifest_id |-> manifest.name,
                      manifest_version |-> manifest.version,
                      record_count |-> fact.record_count]
     IN  IF phase # "none"
         THEN [es |-> write_semantic(
                         IF phase = "output" THEN [es EXCEPT !.seq = sq] ELSE es,
                         utid,
                         [status |-> "FAILURE", error |-> PhaseError(phase),
                          doc_id |-> fact.doc_id, curation_utid |-> fact.utid,
                          record_count |-> 0] @@ SemanticCommon(manifest)),
               semstore |-> semstore, raised |-> phase,
               outcome |-> [status |-> "FAILURE", utid |-> utid,
                            error |-> PhaseError(phase)]]
         ELSE [es |-> write_semantic([es EXCEPT !.seq = sq], utid,
                         [status |-> "SUCCESS", error |-> NoError,
                          doc_id |-> fact.doc_id, curation_utid |-> fact.utid,
                          record_count |-> fact.record_count] @@ SemanticCommon(manifest)),
               semstore |-> (output :> metadata) @@ semstore, raised |-> "none",
               outcome |-> [status |-> "SUCCESS", utid |-> utid,
                            curation_utid |-> fact.utid]] :
     f \in bound, phase \in Phases}

\* an execute() whose source binding is outside the try block: the
\* ValueError of a missing fact leaves the function, nothing is written
semantic_execute_bind_propagates(es, utid, manifest) ==
    LET bound == find_latest_fact_for_manifest(manifest.body.source)
    IN  IF bound = {}
        THEN {[es |-> es, semstore |-> semstore, raised |-> "bind",
               outcome |-> [status |-> "RAISED", utid |-> utid, error |-> "ValueError"]]}
        ELSE semantic_project(es, utid, manifest, bound)

\* semantic_engine.interpreter.execute(manifest, utid) after its parser lookup
semantic_execute(es, utid, manifest) ==
    LET bound == find_latest_fact_for_manifest(manifest.body.source)
    IN  IF bound = {}
        THEN {[es |-> write_semantic(es, utid,
                          [status |-> "FAILURE", error |-> "ValueError",
                           doc_id |-> UnknownDoc, curation_utid |-> NoUtid,
                           record_count |-> 0] @@ SemanticCommon(manifest)),
               semstore |-> semstore, raised |-> "bind",
               outcome |-> [status |-> "FAILURE", utid |-> utid, error |-> "ValueError"]]}
        ELSE semantic_project(es, utid, manifest, bound)

\* trigger.run_semantic_manifest(manifest_id, version)
RunSemanticManifest(manifest_id, version) ==
    /\ Idle
    /\ CanMint
    /\ \E e \in trigger_semantic_job(Cur, Fresh, manifest_id, version) :
       IF e.exc # NoError
       THEN /\ result' = [op |-> "run_semantic_manifest", status |-> "RAISED"]
            /\ UNCHANGED <<files, seq, cache, now, hist, runs, semstore>>
       ELSE \E manifest \in get_manifest_for_execution(records, latest, manifest_id, version) :
            IF manifest = NoneRec \/ get_parser("semantics", manifest) # NoError
            THEN /\ Commit(e)
                 /\ runs' = (Fresh :>
                               [Run("semantic", "run_semantic_manifest", manifest_id,
                                    version, NoUtid, "crashed")
                                EXCEPT !.outcome = [status |-> "RAISED",
                                                    error |-> "ImportError"]]) @@ runs
                 /\ result' = [op |-> "run_semantic_manifest", utid |-> Fresh,
                               status |-> "RAISED"]
                 /\ UNCHANGED semstore
            ELSE \E out \in semantic_execute(e, Fresh, manifest) :
                 /\ Commit(out.es)
                 /\ semstore' = out.semstore
                 /\ runs' = (Fresh :>
                               [Run("semantic", "run_semantic_manifest", manifest_id,
                                    version, NoUtid, "done")
                                EXCEPT !.outcome = out.outcome,
                                       !.manifest = manifest]) @@ runs
                 /\ result' = [op |-> "run_semantic_manifest", utid |-> Fresh,
                               status |-> out.outcome.status, raised |-> out.raised]
    /\ UNCHANGED <<records, latest, everForced, calls, raw, facts, active, env>>

\* list.append(x) unless x is already a member
AppendNew(list, x) == IF \E i \in 1..Len(list) : list[i] = x THEN list ELSE Append(list, x)

\* retrieval_engine.interpreter.execute(manifest, utid)
retrieval_execute(es, utid, manifest) ==
    LET primary == find_latest_semantic_for_manifest(manifest.body.primary)
        secondary == IF manifest.body.secondary = NoManifest THEN {}
                     ELSE find_latest_semantic_for_manifest(manifest.body.secondary)
        common == [manifest_id |-> manifest.name, manifest_version |-> manifest.version,
                   engine |-> manifest.engine]
    IN  IF primary = {}
        THEN {[es |-> write_retrieval(es, utid,
                          [status |-> "FAILURE", error |-> "ValueError",
                           semantic_utids |-> <<>>, doc_ids |-> <<>>,
                           source_manifests |-> <<>>] @@ common),
               raised |-> "bind",
               outcome |-> [status |-> "FAILURE", utid |-> utid, error |-> "ValueError"]]}
        ELSE {LET utids1 == <<semstore[p].utid>>
                  docs1 == IF semstore[p].doc_id = NoDoc THEN <<>> ELSE <<semstore[p].doc_id>>
                  utids2 == IF s = NoFile THEN utids1 ELSE Append(utids1, semstore[s].utid)
                  docs2 == IF s = NoFile \/ semstore[s].doc_id = NoDoc THEN docs1
                           ELSE AppendNew(docs1, semstore[s].doc_id)
                  sq == next_seq(es.seq, "retrieval_store")
              IN  IF phase # "none"
                  THEN [es |-> write_retrieval(
                                  IF phase = "output" THEN [es EXCEPT !.seq = sq] ELSE es,
                                  utid,
                                  [status |-> "FAILURE", error |-> PhaseError(phase),
                                   semantic_utids |-> utids2, doc_ids |-> docs2,
                                   source_manifests |-> <<>>] @@ common),
                        raised |-> phase,
                        outcome |-> [status |-> "FAILURE", utid |-> utid,
                                     error |-> PhaseError(phase)]]
                  ELSE [es |-> write_retrieval([es EXCEPT !.seq = sq], utid,
                                  [status |-> "SUCCESS", error |-> NoError,
                                   semantic_utids |-> utids2, doc_ids |-> docs2,
                                   source_manifests |->
                                       IF manifest.body.secondary = NoManifest
                                       THEN <<manifest.body.primary>>
                                       ELSE <<manifest.body.primary, manifest.body.secondary>>]
                                  @@ common),
                        raised |-> "none",
                        outcome |-> [status |-> "SUCCESS", utid |-> utid,
                                     semantic_utids |-> utids2]] :
              p \in primary, s \in IF secondary = {} THEN {NoFile} ELSE secondary,
              phase \in Phases}

\* retrieve.main(manifest_id, dry_run)
Retrieve(manifest_id, dry_run) ==
    /\ Idle
    /\ CanMint
    /\ \E manifest \in get_manifest_for_execution(records, latest, manifest_id, NoVersion) :
       IF manifest = NoneRec
       THEN /\ result' = [op |-> "retrieve", status |-> "RAISED"]
            /\ UNCHANGED <<files, seq, cache, now, hist, runs>>
       ELSE IF dry_run \/ manifest.engine # "retrieval_engine"
       THEN /\ runs' = (Fresh :>
                          [Run("retrieval", "retrieve", manifest_id, NoVersion, NoUtid,
                               IF dry_run THEN "returned" ELSE "crashed")
                           EXCEPT !.outcome = [status |-> IF dry_run THEN "DRY_RUN"
                                                          ELSE "RAISED"]]) @@ runs
            /\ result' = [op |-> "retrieve", utid |-> Fresh,
                          status |-> IF dry_run THEN "DRY_RUN" ELSE "RAISED"]
            /\ UNCHANGED <<files, seq, cache, now, hist>>
       ELSE \E out \in retrieval_execute(Cur, Fresh, manifest) :
            /\ Commit(out.es)
            /\ runs' = (Fresh :>
                          [Run("retrieval", "retrieve", manifest_id, NoVersion, NoUtid,
                               "done")
                           EXCEPT !.outcome = out.outcome,
                                  !.manifest = manifest]) @@ runs
            /\ result' = [op |-> "retrieve", utid |-> Fresh, status |-> out.outcome.status,
                          raised |-> out.raised]
    /\ UNCHANGED <<records, latest, everForced, calls, raw, facts, semstore, active, env>>

\* ------------------------------------------------------------ trace.py

\* the value of evidence.get("utid", "unknown") when the key is missing
UnknownUtid == 0 - 1

\* trace.find_evidence_by_utid: the first record, in the order the directory
\* listing yields the files, whose utid is the one asked for; the listing
\* order is the file system's, so each matching file is a possible outcome
find_evidence_by_utid(fs, utid) ==
    IF EvidenceOf(fs, utid) = {} THEN {NoneRec}
    ELSE {fs[f] : f \in EvidenceOf(fs, utid)}

\* what a lineage node contributes: the records it was built from and the
\* truthy doc ids the collection at the end of trace() finds in it
Node(utids, doc_ids) ==
    [visited |-> utids, doc_ids |-> doc_ids \ {NoDoc}, warnings |-> {}]

\* the "evidence not found" line printed for an upstream utid without a record
Warned(utid) == [Node({}, {}) EXCEPT !.warnings = {utid}]

Merge(a, b) ==
    [Node(a.visited \cup b.visited, a.doc_ids \cup b.doc_ids)
     EXCEPT !.warnings = a.warnings \cup b.warnings]

\* trace.trace_curation
trace_curation(evidence) ==
    Node({Get(evidence, "utid", UnknownUtid)}, {Get(evidence, "doc_id", UnknownDoc)})

\* trace.trace_semantic: the node and its curation parent
trace_semantic(fs, evidence) ==
    LET own == Node({Get(evidence, "utid", UnknownUtid)},
                    {Get(evidence, "doc_id", UnknownDoc)})
        curation_utid == Get(evidence, "curation_utid", UnknownUtid)
    IN  {IF curation_evidence = NoneRec THEN Merge(own, Warned(curation_utid))
         ELSE Merge(own, trace_curation(curation_evidence)) :
            curation_evidence \in find_evidence_by_utid(fs, curation_utid)}

\* a loop over semantic_utids that ends at the first utid without a record
RECURSIVE TraceParentsUntilMissing(_, _)
TraceParentsUntilMissing(fs, semantic_utids) ==
    IF semantic_utids = <<>> THEN {Node({}, {})}
    ELSE UNION {IF sem_evidence = NoneRec THEN {Warned(Head(semantic_utids))}
                ELSE {Merge(sem_info, rest) :
                         sem_info \in trace_semantic(fs, sem_evidence),
                         rest \in TraceParentsUntilMissing(fs, Tail(semantic_utids))} :
                sem_evidence \in find_evidence_by_utid(fs, Head(semantic_utids))}

\* the loop of trace_retrieval over semantic_utids
RECURSIVE TraceParents(_, _)
TraceParents(fs, semantic_utids) ==
    IF semantic_utids = <<>> THEN {Node({}, {})}
    ELSE UNION {{Merge(sem_info, rest) :
                    sem_info \in IF sem_evidence = NoneRec
                                 THEN {Warned(Head(semantic_utids))}
                                 ELSE trace_semantic(fs, sem_evidence),
                    rest \in TraceParents(fs, Tail(semantic_utids))} :
                sem_evidence \in find_evidence_by_utid(fs, Head(semantic_utids))}

\* trace.trace_retrieval: the node and all its semantic parents
trace_retrieval(fs, evidence) ==
    LET doc_ids == Get(evidence, "doc_ids", <<>>)
        own == Node({Get(evidence, "utid", UnknownUtid)},
                    {doc_ids[i] : i \in 1..Len(doc_ids)})
    IN  {Merge(own, parents) :
            parents \in TraceParents(fs, Get(evidence, "semantic_utids", <<>>))}

\* trace.trace(utid): the possible lineages, each with the records visited
\* and the doc ids collected
trace(fs, utid) ==
    UNION {IF evidence = NoneRec THEN {[error |-> "not_found"]}
           ELSE LET layer == Get(evidence, "layer", Get(evidence, "record_type", "unknown"))
                IN  IF layer = "retrieval" THEN trace_retrieval(fs, evidence)
                    ELSE IF layer \in {"semantic", "semantics"}
                    THEN trace_semantic(fs, evidence)
                    ELSE IF layer = "curation" \/ "bom" \in DOMAIN evidence
                    THEN {trace_curation(evidence)}
                    ELSE {Node({Get(evidence, "utid", UnknownUtid)},
                               {Get(evidence, "doc_id", NoDoc)})} :
           evidence \in find_evidence_by_utid(fs, utid)}

\* what trace() prints at its end: the trace is verified when the set of
\* collected doc ids is not empty
trace_report(lineage) ==
    IF "error" \in DOMAIN lineage THEN "NOT_FOUND"
    ELSE IF lineage.doc_ids # {} THEN "TRACE VERIFIED"
    ELSE "NO_DOC_ID"

\* the command line trace.py <utid>
Trace(utid) ==
    /\ Idle
    /\ \E lineage \in trace(files, utid) :
          result' = [op |-> "trace", utid |-> utid, lineage |-> lineage,
                     report |-> trace_report(lineage)]
    /\ UNCHANGED <<records, latest, now, everForced, calls>>
    /\ UNCHANGED execVars

\* ----------------------------------------------------------- specifications

Agency == "bls"

CurA == Manifest("curA", V100, "python", CurationBody(2, DefaultSteps))
CurB == Manifest("curB", V100, "python_spark", CurationBody(2, SparkSteps))
CurD == Manifest("curD", V100, "python_duckdb", CurationBody(2, DefaultSteps))
SemA == Manifest("semA", V100, "python", SemanticBody("curA"))
SemB == Manifest("semB", V100, "python", SemanticBody("curB"))
Ret == Manifest("ret", V100, "retrieval_engine", RetrievalBody("semA", "semB"))

CurationIds == {"curA", "curB", "curD"}
SemanticIds == {"semA", "semB"}
RetrievalIds == {"ret"}
RunVersions == {NoVersion, V200}

\* the manifest store after deploy.py has deployed each manifest of ms once
DeployedRecords(ms) ==
    [p \in {get_version_path(ms[i].name, ms[i].version, ms[i].body.layer, Agency) :
               i \in 1..Len(ms)} |->
        LET m == ms[CHOOSE i \in 1..Len(ms) : ms[i].name = p[2] /\ ms[i].version = p[3]]
        IN  ManifestVersionRecord(m, m.body.layer, Agency, 0, NoVersion)]

DeployedPointers(ms) ==
    [p \in {get_latest_pointer_path(ms[i].name, ms[i].body.layer, Agency) :
               i \in 1..Len(ms)} |->
        [version |-> ms[CHOOSE i \in 1..Len(ms) : ms[i].name = p[2]].version,
         updated_at |-> 0]]

\* the deployment evidence records deploy.py has written for them
DeploymentRecords(ms) ==
    [f \in {SeqName("deploy", i, ms[i].name, ms[i].version) : i \in 1..Len(ms)} |->
        [record_type |-> "deployment", manifest_id |-> f[3], manifest_version |-> f[4],
         content_hash |-> compute_hash(ms[f[2]]), layer |-> ms[f[2]].body.layer,
         agency |-> Agency, status |-> "SUCCESS", created_at |-> 0]]

ExecInit(ms, platform) ==
    /\ records = DeployedRecords(ms)
    /\ latest = DeployedPointers(ms)
    /\ now = 0
    /\ result = [op |-> "none"]
    /\ everForced = FALSE
    /\ calls = EmptyFn
    /\ files = DeploymentRecords(ms)
    /\ seq = [s \in SeqStores |-> 0]
    /\ cache = EmptyFn
    /\ raw = EmptyFn
    /\ facts = EmptyFn
    /\ semstore = EmptyFn
    /\ runs = EmptyFn
    /\ hist = EmptyFn
    /\ active = NoUtid
    /\ env = platform

Init ==
    \E glob_raises \in BOOLEAN :
        ExecInit(<<CurA, CurD, SemA, Ret>>,
                 [glob_raises |-> glob_raises, faults |-> TRUE, max_runs |-> MaxRuns])

\* every use of the platform: the command lines and the steps of a run
Next ==
    \/ \E manifest_id \in CurationIds, version \in RunVersions :
          RunManifest(manifest_id, version)
    \/ Dispatch
    \/ Ingest
    \/ Process
    \/ Complete
    \/ \E source_utid \in DOMAIN runs : ReplayManifest(source_utid)
    \/ \E source_utid \in DOMAIN runs : Replay(source_utid)
    \/ \E manifest_id \in CurationIds, version \in {V100, V200} :
          ReplayVersion(manifest_id, version)
    \/ \E utid \in DOMAIN runs, engine_type \in InterpreterModules : Execute(utid, engine_type)
    \/ \E manifest_id \in SemanticIds, version \in RunVersions :
          RunSemanticManifest(manifest_id, version)
    \/ \E manifest_id \in RetrievalIds, dry_run \in BOOLEAN : Retrieve(manifest_id, dry_run)
    \/ NewProcess

Spec == Init /\ [][Next]_vars

\* the lineage chain: two curation sources, their semantic projections and
\* the retrieval that joins them, each run to its end on a platform without
\* faults
LineageInit ==
    ExecInit(<<CurA, CurB, SemA, SemB, Ret>>,
             [glob_raises |-> FALSE, faults |-> FALSE, max_runs |-> MaxLineageRuns])

LineageNext ==
    \/ \E manifest_id \in CurationIds : RunManifest(manifest_id, NoVersion)
    \/ Dispatch
    \/ Ingest
    \/ Process
    \/ Complete
    \/ \E manifest_id \in SemanticIds : RunSemanticManifest(manifest_id, NoVersion)
    \/ \E manifest_id \in RetrievalIds : Retrieve(manifest_id, FALSE)
    \/ \E utid \in DOMAIN runs : Trace(utid)

SpecLineage == LineageInit /\ [][LineageNext]_vars

\* ------------------------------------------- calls of the evidence store

\* a client of the orchestrator queues a job: publisher.trigger_curation_job
\* or publisher.trigger_semantic_job alone
TriggerJob(manifest_id) ==
    /\ Idle
    /\ CanMint
    /\ \E e \in IF manifest_id \in SemanticIds
                 THEN trigger_semantic_job(Cur, Fresh, manifest_id, NoVersion)
                 ELSE trigger_curation_job(Cur, Fresh, manifest_id, NoVersion) :
          /\ e.exc = NoError
          /\ Commit(e)
          /\ runs' = (Fresh :> Run(IF manifest_id \in SemanticIds THEN "semantic"
                                    ELSE "curation",
                                   "trigger_job", manifest_id, NoVersion, NoUtid,
                                   "queued")) @@ runs
          /\ result' = [op |-> "trigger_job", utid |-> Fresh]
    /\ UNCHANGED <<records, latest, everForced, calls, raw, facts, semstore, active, env>>

\* the call EvidenceStore.update_status(utid, status, **extra) alone
UpdateStatus(utid, status, extra) ==
    /\ Idle
    /\ now < MaxCalls
    /\ \E e \in update_status(Cur, utid, status, extra) :
          /\ Commit(e)
          /\ result' = [op |-> "update_status", utid |-> utid, status |-> status,
                        extra |-> extra, exc |-> e.exc]
    /\ UNCHANGED <<records, latest, everForced, calls, raw, facts, semstore, runs,
                   active, env>>

EvidenceInit ==
    \E glob_raises \in BOOLEAN :
        ExecInit(<<CurA, SemA>>,
                 [glob_raises |-> glob_raises, faults |-> FALSE, max_runs |-> MaxQueued])

EvidenceNext ==
    \/ \E manifest_id \in {"curA", "semA"} : TriggerJob(manifest_id)
    \/ \E utid \in 1..(MaxQueued + 1), status \in {"STARTED", "SUCCESS", "FAILURE"},
          extra \in {EmptyFn, [error |-> "ValueError"]} : UpdateStatus(utid, status, extra)
    \/ NewProcess

SpecEvidence == EvidenceInit /\ [][EvidenceNext]_vars

\* ------------------------------------------- lineage after a reset

\* a semantic projection written before reset.py ran: reset.py empties the
\* evidence store and restarts the sequence counters but leaves the
\* semantic store, so the projection names a utid without evidence
OldOutput(utid, manifest_id) ==
    format_filename("semantic", 1, utid) :>
        [utid |-> utid, doc_id |-> <<"doc", utid>>, curation_utid |-> utid - 1,
         manifest_id |-> manifest_id, manifest_version |-> V100, record_count |-> 1]

LeftBehind == {EmptyFn, OldOutput(7, "semA"), OldOutput(9, "semB"),
               OldOutput(7, "semA") @@ OldOutput(9, "semB")}

TraceInit ==
    /\ records = DeployedRecords(<<CurA, CurB, SemA, SemB, Ret>>)
    /\ latest = DeployedPointers(<<CurA, CurB, SemA, SemB, Ret>>)
    /\ now = 0
    /\ result = [op |-> "none"]
    /\ everForced = FALSE
    /\ calls = EmptyFn
    /\ files = DeploymentRecords(<<CurA, CurB, SemA, SemB, Ret>>)
    /\ seq = [s \in SeqStores |-> 0]
    /\ cache = EmptyFn
    /\ raw = EmptyFn
    /\ facts = EmptyFn
    /\ semstore \in LeftBehind
    /\ runs = EmptyFn
    /\ hist = EmptyFn
    /\ active = NoUtid
    /\ env = [glob_raises |-> FALSE, faults |-> FALSE, max_runs |-> MaxTraceRuns]

TraceNext ==
    \/ \E manifest_id \in {"curA", "curB"} : RunManifest(manifest_id, NoVersion)
    \/ Dispatch
    \/ Ingest
    \/ Process
    \/ Complete
    \/ \E manifest_id \in SemanticIds : RunSemanticManifest(manifest_id, NoVersion)
    \/ Retrieve("ret", FALSE)
    \/ \E utid \in DOMAIN runs : Trace(utid)

SpecTrace == TraceInit /\ [][TraceNext]_vars

\* ------------------------------------------------- trace.py, call by call

\* the evidence stores the walk is run on: one record per utid, of any layer,
\* naming any utid as its parents, itself and a utid without record included
WalkUtids == {1, 2}

WalkRecords(utid) ==
    {[utid |-> utid, layer |-> layer, doc_id |-> <<"doc", utid>>,
      curation_utid |-> curation_utid, semantic_utids |-> semantic_utids] :
        layer \in {"curation", "semantic", "retrieval"},
        curation_utid \in {1, 2, 3},
        semantic_utids \in {<<1>>, <<1, 2>>, <<2, 3>>}}

\* in this specification calls is the stack of the calls of trace_retrieval,
\* trace_semantic and trace_curation that have not returned
Frame(evidence, fn, depth) == [evidence |-> evidence, fn |-> fn, k |-> 1, depth |-> depth]

\* the function trace() calls for a record, by its layer
TraceFunction(evidence) ==
    LET layer == Get(evidence, "layer", Get(evidence, "record_type", "unknown"))
    IN  IF layer = "retrieval" THEN "trace_retrieval"
        ELSE IF layer \in {"semantic", "semantics"} THEN "trace_semantic"
        ELSE IF layer = "curation" \/ "bom" \in DOMAIN evidence THEN "trace_curation"
        ELSE "unknown"

WalkInit ==
    /\ records = EmptyFn
    /\ latest = EmptyFn
    /\ now = 0
    /\ result = [op |-> "none"]
    /\ everForced = FALSE
    /\ calls = <<>>
    /\ \E first \in WalkRecords(1), second \in WalkRecords(2) :
          files = (SeqName(first.layer, 1, "m", V100) :> first)
                      @@ (SeqName(second.layer, 2, "m", V100) :> second)
    /\ seq = [s \in SeqStores |-> 0]
    /\ cache = EmptyFn
    /\ raw = EmptyFn
    /\ facts = EmptyFn
    /\ semstore = EmptyFn
    /\ runs = EmptyFn
    /\ hist = EmptyFn
    /\ active = NoUtid
    /\ env = [glob_raises |-> FALSE, faults |-> FALSE, max_runs |-> 0]

\* trace(utid) up to the call of the function of the record's layer
WalkStart(utid) ==
    /\ result.op = "none"
    /\ \E evidence \in find_evidence_by_utid(files, utid) :
          calls' = IF evidence = NoneRec \/ TraceFunction(evidence) = "unknown" THEN <<>>
                   ELSE <<Frame(evidence, TraceFunction(evidence), 1)>>
    /\ result' = [op |-> "trace", utid |-> utid, steps |-> 1]
    /\ UNCHANGED <<records, latest, now, everForced>>
    /\ UNCHANGED execVars

Pop(stack) == SubSeq(stack, 1, Len(stack) - 1)

\* a walk in which every parent is traced by the function of its own layer
WalkStepByLayer ==
    LET top == calls[Len(calls)]
        semantic_utids == Get(top.evidence, "semantic_utids", <<>>)
    IN  /\ result.op = "trace"
        /\ calls # <<>>
        /\ result.steps < MaxWalkSteps
        /\ CASE top.fn = "trace_retrieval" /\ top.k <= Len(semantic_utids) ->
                    \E sem_evidence \in find_evidence_by_utid(files, semantic_utids[top.k]) :
                        LET rest == [calls EXCEPT ![Len(calls)].k = top.k + 1]
                        IN  calls' = IF sem_evidence = NoneRec THEN rest
                                     ELSE Append(rest, Frame(sem_evidence,
                                                             TraceFunction(sem_evidence),
                                                             top.depth + 1))
             [] top.fn = "trace_semantic" /\ top.k = 1 ->
                    \E curation_evidence \in
                           find_evidence_by_utid(files, Get(top.evidence, "curation_utid",
                                                            UnknownUtid)) :
                        LET rest == [calls EXCEPT ![Len(calls)].k = 2]
                        IN  calls' = IF curation_evidence = NoneRec THEN rest
                                     ELSE Append(rest, Frame(curation_evidence,
                                                             TraceFunction(curation_evidence),
                                                             top.depth + 1))
             [] OTHER -> calls' = Pop(calls)
        /\ result' = [result EXCEPT !.steps = @ + 1]
        /\ UNCHANGED <<records, latest, now, everForced>>
        /\ UNCHANGED execVars

\* one step of the call on top of the stack: trace_retrieval finds the next
\* of its semantic_utids and calls trace_semantic for the record, or returns
\* after the last; trace_semantic finds its curation_utid and calls
\* trace_curation for the record, or returns after that; trace_curation
\* returns
WalkStep ==
    LET top == calls[Len(calls)]
        semantic_utids == Get(top.evidence, "semantic_utids", <<>>)
    IN  /\ result.op = "trace"
        /\ calls # <<>>
        /\ result.steps < MaxWalkSteps
        /\ CASE top.fn = "trace_retrieval" /\ top.k <= Len(semantic_utids) ->
                    \E sem_evidence \in find_evidence_by_utid(files, semantic_utids[top.k]) :
                        LET rest == [calls EXCEPT ![Len(calls)].k = top.k + 1]
                        IN  calls' = IF sem_evidence = NoneRec THEN rest
                                     ELSE Append(rest, Frame(sem_evidence, "trace_semantic",
                                                             top.depth + 1))
             [] top.fn = "trace_semantic" /\ top.k = 1 ->
                    \E curation_evidence \in
                           find_evidence_by_utid(files, Get(top.evidence, "curation_utid",
                                                            UnknownUtid)) :
                        LET rest == [calls EXCEPT ![Len(calls)].k = 2]
                        IN  calls' = IF curation_evidence = NoneRec THEN rest
                                     ELSE Append(rest, Frame(curation_evidence,
                                                             "trace_curation", top.depth + 1))
             [] OTHER -> calls' = Pop(calls)
        /\ result' = [result EXCEPT !.steps = @ + 1]
        /\ UNCHANGED <<records, latest, now, everForced>>
        /\ UNCHANGED execVars

WalkNext ==
    \/ \E utid \in WalkUtids \cup {3} : WalkStart(utid)
    \/ WalkStep

SpecWalk == WalkInit /\ [][WalkNext]_vars

\* the interpreter goes on with a call that can go on
SpecWalkFair == SpecWalk /\ WF_vars(WalkNext)

\* ------------------------------------------------------------- reset.py

\* reset.py: the contents of the evidence store, the agency folders of the
\* raw store, of the fact store and of the curation manifests are removed and
\* every sequence file is unlinked; the semantic store, the retrieval store
\* and the manifests of the other layers stay. The command that follows runs
\* in a process of its own. The reset is made of a platform that has run
\* something since it was set up
Reset ==
    /\ active = NoUtid
    /\ \E f \in DOMAIN files : Get(files[f], "record_type", "none") # "deployment"
    /\ files' = EmptyFn
    /\ raw' = EmptyFn
    /\ facts' = EmptyFn
    /\ records' = [p \in {q \in DOMAIN records : q[1][1] # "curation"} |-> records[p]]
    /\ latest' = [p \in {q \in DOMAIN latest : q[1][1] # "curation"} |-> latest[p]]
    /\ seq' = [s \in DOMAIN seq |-> 0]
    /\ cache' = EmptyFn
    /\ result' = [op |-> "reset"]
    /\ UNCHANGED <<now, everForced, calls, semstore, runs, hist, active, env>>

\* deploy.py for a manifest the store does not hold: ManifestStore.deploy
\* without force writes the version record and the latest pointer, and
\* write_deployment writes the deployment evidence record
DeployCli(manifest) ==
    LET manifest_id == get_manifest_id(manifest)
        layer == manifest.body.layer
        path == get_version_path(manifest_id, manifest.version, layer, Agency)
        ptr == get_latest_pointer_path(manifest_id, layer, Agency)
    IN  /\ active = NoUtid
        /\ path \notin DOMAIN records
        /\ ptr \notin DOMAIN latest
        /\ now' = now + 1
        /\ records' = dump(records, path,
                           ManifestVersionRecord(manifest, layer, Agency, now', NoVersion))
        /\ latest' = dump(latest, ptr, [version |-> manifest.version, updated_at |-> now'])
        /\ files' = dump(files,
                         SeqName("deploy",
                                 Cardinality({f \in DOMAIN files : f[1] = "deploy"}) + 1,
                                 manifest_id, manifest.version),
                         [record_type |-> "deployment", manifest_id |-> manifest_id,
                          manifest_version |-> manifest.version,
                          content_hash |-> compute_hash(manifest), layer |-> layer,
                          agency |-> Agency, status |-> "SUCCESS", created_at |-> now'])
        /\ result' = Call(manifest, FALSE, layer, Agency, "DEPLOYED", TRUE, NoVersion)
        /\ UNCHANGED <<everForced, calls, seq, cache, raw, facts, semstore, runs, hist,
                       active, env>>

\* the pipeline of one source with resets in between
ResetInit ==
    ExecInit(<<CurA, SemA, Ret>>,
             [glob_raises |-> FALSE, faults |-> FALSE, max_runs |-> MaxTraceRuns])

ResetNext ==
    \/ RunManifest("curA", NoVersion)
    \/ Dispatch
    \/ Ingest
    \/ Process
    \/ Complete
    \/ \E source_utid \in DOMAIN runs : ReplayManifest(source_utid)
    \/ \E source_utid \in DOMAIN runs : Replay(source_utid)
    \/ RunSemanticManifest("semA", NoVersion)
    \/ Retrieve("ret", FALSE)
    \/ Reset
    \/ DeployCli(CurA)

SpecReset == ResetInit /\ [][ResetNext]_vars

\* ------------------------------------------------ calls of pure functions

\* a platform on which nothing is deployed and nothing has run, about to
\* make one call
CallInit(call) ==
    /\ records = EmptyFn
    /\ latest = EmptyFn
    /\ now = 0
    /\ result = call
    /\ everForced = FALSE
    /\ calls = EmptyFn
    /\ ExecIdle
    /\ env = [glob_raises |-> FALSE, faults |-> FALSE, max_runs |-> 0]

\* the component references and engines a manifest can name
ComponentRefs ==
    [path : EngineRelativePaths \cup QualifiedPaths \cup LegacyPaths,
     version : {V100, V200, NoVersion}]

EngineNames == ENGINE_BASE_PATHS \cup {"python_flink"}

ResolverInit ==
    \E component_ref \in ComponentRefs, engine \in EngineNames :
        CallInit([op |-> "component_ref", component_ref |-> component_ref,
                  engine |-> engine])

SpecResolver == ResolverInit /\ [][ResolveAndValidate]_vars

VersionsInit ==
    \E v1 \in VersionStrings, v2 \in VersionStrings :
        CallInit([op |-> "versions", v1 |-> v1, v2 |-> v2])

SpecVersions == VersionsInit /\ [][CompareVersions]_vars

\* ------------------------------------------------ the sequence counter

\* the stores next_seq is called for: three with a .seq file and one that
\* _SEQ_FILES does not list
SeqCallers == {"raw", "curation", "semantic_store", "deployment"}

\* in this specification hist keeps, per store, the numbers next_seq has
\* returned for it, in order
SeqInit ==
    /\ records = EmptyFn
    /\ latest = EmptyFn
    /\ now = 0
    /\ result = [op |-> "none"]
    /\ everForced = FALSE
    /\ calls = EmptyFn
    /\ files = EmptyFn
    /\ seq = [s \in SeqStores |-> 0]
    /\ cache = EmptyFn
    /\ raw = EmptyFn
    /\ facts = EmptyFn
    /\ semstore = EmptyFn
    /\ runs = EmptyFn
    /\ hist = [s \in SeqCallers |-> <<>>]
    /\ active = NoUtid
    /\ env = [glob_raises |-> FALSE, faults |-> FALSE, max_runs |-> 0]

Issued == Len(hist["raw"]) + Len(hist["curation"]) + Len(hist["semantic_store"])
              + Len(hist["deployment"])

\* one call of sequence_counter.next_seq(store)
NextSeq(store) ==
    /\ Issued < MaxSeqCalls
    /\ seq' = next_seq(seq, store)
    /\ result' = [op |-> "next_seq", store |-> store, returned |-> load_seq(seq, store) + 1]
    /\ hist' = [hist EXCEPT ![store] = Append(@, load_seq(seq, store) + 1)]
    /\ UNCHANGED <<records, latest, now, everForced, calls, files, cache, raw, facts,
                   semstore, runs, active, env>>

\* sequence_counter.reset_all_sequences, the last step of reset.py: every
\* .seq file is unlinked
reset_all_sequences ==
    /\ seq' = [s \in DOMAIN seq |-> 0]
    /\ result' = [op |-> "reset_all_sequences"]
    /\ UNCHANGED <<records, latest, now, everForced, calls, files, cache, raw, facts,
                   semstore, runs, hist, active, env>>

SeqNext ==
    \/ \E store \in SeqCallers : NextSeq(store)
    \/ reset_all_sequences

SpecSeq == SeqInit /\ [][SeqNext]_vars

\* ------------------------------------- concurrent writers of first records

\* pipeline runs in processes of their own, each about to write the QUEUED
\* record of its utid; in this specification calls keeps, per utid, the point
\* the write_uir call of its process has reached
Writers == {1, 2}

FirstRecord(layer, manifest_id) ==
    [status |-> "QUEUED", layer |-> layer, manifest_id |-> manifest_id,
     manifest_version |-> V100]

WritersInit ==
    /\ records = EmptyFn
    /\ latest = EmptyFn
    /\ now = 0
    /\ result = [op |-> "none"]
    /\ everForced = FALSE
    /\ calls \in [Writers -> {[pc |-> "path", data |-> FirstRecord(layer, manifest_id),
                               current |-> 0, path |-> NoFile] :
                                  layer \in {"curation", "semantics"},
                                  manifest_id \in {"curA", "curB"}}]
    /\ ExecIdle
    /\ env = [glob_raises |-> FALSE, faults |-> FALSE, max_runs |-> 0]

\* _get_record_path up to the read of the sequence file: the cache of the
\* process is empty, the glob is searched for the utid, _load_seq reads
WriterPath(utid) ==
    LET call == calls[utid]
        hits == {f \in GlobRecords(files, RecordType(call.data), call.data.manifest_id) :
                    Get(files[f], "utid", NoUtid) = utid}
    IN  /\ call.pc = "path"
        /\ IF hits # {}
           THEN \E f \in hits : calls' = [calls EXCEPT ![utid].pc = "store", ![utid].path = f]
           ELSE calls' = [calls EXCEPT ![utid].pc = "save",
                                       ![utid].current = load_seq(seq, RecordType(call.data))]
        /\ result' = [op |-> "write_uir", utid |-> utid]
        /\ UNCHANGED <<records, latest, now, everForced>>
        /\ UNCHANGED execVars

\* the rest of next_seq and of _get_record_path: _save_seq writes the number
\* read plus one, and the number makes the file name
WriterSave(utid) ==
    LET call == calls[utid]
        record_type == RecordType(call.data)
        next_num == call.current + 1
    IN  /\ call.pc = "save"
        /\ seq' = IF record_type \in DOMAIN seq
                  THEN [seq EXCEPT ![record_type] = next_num] ELSE seq
        /\ calls' = [calls EXCEPT ![utid].pc = "store",
                                  ![utid].path = SeqName(record_type, next_num,
                                                         call.data.manifest_id,
                                                         call.data.manifest_version)]
        /\ result' = [op |-> "write_uir", utid |-> utid]
        /\ UNCHANGED <<records, latest, now, everForced, files, cache, raw, facts,
                       semstore, runs, hist, active, env>>

\* the rest of write_uir: the file at the path is loaded when it exists, the
\* new data is merged over it and the result is written back
WriterStore(utid) ==
    LET call == calls[utid]
        existing == IF call.path \in DOMAIN files THEN files[call.path] ELSE EmptyFn
        t == now + 1
        merged == [utid |-> utid, updated_at |-> t] @@ call.data @@ existing
        ordered == merged @@ [created_at |-> t]
    IN  /\ call.pc = "store"
        /\ files' = (call.path :> ordered) @@ files
        /\ now' = t
        /\ hist' = Logged(hist, utid, call.data, ordered)
        /\ calls' = [calls EXCEPT ![utid].pc = "done"]
        /\ result' = [op |-> "write_uir", utid |-> utid]
        /\ UNCHANGED <<records, latest, everForced, seq, cache, raw, facts, semstore,
                       runs, active, env>>

WritersNext ==
    \E utid \in Writers : WriterPath(utid) \/ WriterSave(utid) \/ WriterStore(utid)

SpecWriters == WritersInit /\ [][WritersNext]_vars

\* ------------------------------------------------------ execution claims

Terminal == {"SUCCESS", "FAILURE"}

\* the place of a status in the lifecycle QUEUED, STARTED, {SUCCESS | FAILURE}
Rank(status) ==
    CASE status = "QUEUED" -> 1
      [] status = "STARTED" -> 2
      [] status \in Terminal -> 3
      [] OTHER -> 0

StatusSubsequence(h) ==
    /\ \A i \in 1..Len(h) : Rank(h[i]) > 0
    /\ \A i \in 1..(Len(h) - 1) : Rank(h[i]) < Rank(h[i + 1])

CE_C6 ==
    \A u \in DOMAIN runs : Cardinality(EvidenceOf(files, u)) = 1

\* the handler that minted the UTID, or the one that executed it, is over
Ended(u) == runs[u].pc \in {"done", "crashed", "returned"}

\* C7: a minted UTID whose QUEUED record was written is not left at QUEUED
\* or STARTED: when the call that executes it is over, a terminal status
\* SUCCESS or FAILURE is stored for it
CE_C7 ==
    \A u \in DOMAIN runs :
        (u \in DOMAIN hist /\ Ended(u)) => hist[u][Len(hist[u])] \in Terminal

\* the BOM entries of the steps that completed before step number 'step'
\* (0 the ingestion, k the k-th processing step) of a run
CompletedBefore(run, step) ==
    IF step = 0 THEN <<>>
    ELSE <<IF run.source_utid # NoUtid THEN ReplayEntry(run.source_utid)
           ELSE BomEntry("ingestion", run.manifest.body.ingestion)>>
         \o [i \in 1..(step - 1) |->
                BomEntry(run.manifest.body.processing[i].step_name,
                         run.manifest.body.processing[i].component)]

\* C8: when resolving or invoking the ingestion component or the k-th
\* processing step raises, run() ends there and returns a FAILURE result with
\* the error, no later step is taken, and the one evidence record holds status
\* FAILURE, the error message and a failed BOM whose components are exactly
\* those of the steps completed before; a run that is over takes no step
StepFailureRecorded ==
    [][/\ (result'.op = "invoke" /\ ~result'.ok) =>
             LET u == result'.utid
             IN  /\ runs[u].pc \in {"ingest", "process"}
                 /\ runs'[u].pc = "done"
                 /\ runs'[u].k = runs[u].k
                 /\ active' = NoUtid
                 /\ runs'[u].outcome =
                        [status |-> "FAILURE", utid |-> u, error |-> result'.message]
                 /\ EvidenceOf(files', u) = EvidenceOf(files, u)
                 /\ \A f \in EvidenceOf(files', u) :
                        /\ files'[f].status = "FAILURE"
                        /\ files'[f].error = result'.message
                        /\ files'[f].bom.status = "FAILURE"
                        /\ files'[f].bom.error = result'.message
                        /\ files'[f].bom.components_used =
                               CompletedBefore(runs[u], result'.step)
       /\ \A u \in DOMAIN runs :
             (runs[u].pc = "done" /\ runs[u].kind = "curation") => runs'[u] = runs[u]]_vars

\* the second processing step of a curation run raised and the run failed
Witness_C8 ==
    /\ result.op = "invoke"
    /\ ~result.ok
    /\ result.step = 2
    /\ runs[result.utid].outcome.status = "FAILURE"
    /\ \E f \in EvidenceOf(files, result.utid) :
          /\ files[f].status = "FAILURE"
          /\ Len(files[f].bom.components_used) = 2

\* C9: replaying a successful curation execution U mints a new UTID other
\* than U and creates a new evidence record for it, while U's evidence
\* record and U's raw and fact artifacts stay as they were
CE_C9 ==
    [][(/\ result'.op = "replay_manifest"
        /\ runs[result'.source_utid].kind = "curation"
        /\ runs[result'.source_utid].outcome.status = "SUCCESS")
       => (/\ result'.utid # NoUtid
           /\ result'.utid # result'.source_utid
           /\ result'.utid \notin DOMAIN runs
           /\ EvidenceOf(files, result'.utid) = {}
           /\ EvidenceOf(files', result'.utid) # {}
           /\ \A f \in EvidenceOf(files, result'.source_utid) :
                 f \in DOMAIN files' /\ files'[f] = files[f]
           /\ \A f \in DOMAIN raw : f \in DOMAIN raw' /\ raw'[f] = raw[f]
           /\ \A f \in DOMAIN facts : f \in DOMAIN facts' /\ facts'[f] = facts[f])]_vars

\* the doc ids in the evidence of a UTID
DocIdsOf(u) ==
    {files[f].doc_id : f \in {g \in EvidenceOf(files, u) : "doc_id" \in DOMAIN files[g]}}

\* the curation parents the evidence of a semantic UTID names
CurationOf(s) ==
    {files[f].curation_utid :
        f \in {g \in EvidenceOf(files, s) : "curation_utid" \in DOMAIN files[g]}}

\* C10: for a successful retrieval whose record has semantic_utids = [S1, S2],
\* S1's record naming the curation C1 and S2's the curation C2, the trace
\* from the retrieval UTID visits exactly the records S1, S2, C1 and C2, and
\* the doc ids it collects are those of C1 and C2
CE_C10 ==
    (/\ result.op = "trace"
     /\ \E f \in EvidenceOf(files, result.utid) :
           /\ Get(files[f], "record_type", "") = "retrieval"
           /\ files[f].status = "SUCCESS"
           /\ Len(files[f].semantic_utids) = 2)
    => \A f \in EvidenceOf(files, result.utid) :
          LET S == {files[f].semantic_utids[i] : i \in 1..2}
              C == UNION {CurationOf(s) : s \in S}
          IN  /\ "visited" \in DOMAIN result.lineage
              /\ result.lineage.visited \ {result.utid} = S \cup C
              /\ result.lineage.doc_ids = UNION {DocIdsOf(c) : c \in C}

\* ------------------------------------------------------- resolver claims

\* C11: resolve_and_validate never returns a callable whose declared metadata
\* version differs from the version the component reference requests; when
\* the callable the path leads to declares another version, the call raises
\* the version-mismatch error naming the requested and the declared version
VersionMismatchRaises ==
    result.op = "resolve_and_validate" =>
        LET target == resolve_unvalidated(result.component_ref, result.engine)
        IN  /\ result.outcome.ok =>
                    result.outcome.func.version = result.component_ref.version
            /\ (/\ target.ok
                /\ target.func.version # NoVersion
                /\ target.func.version # result.component_ref.version)
               => result.outcome =
                     ResolveError("MDA VERSION MISMATCH",
                                  <<result.component_ref.version, target.func.version>>)

\* version 2.0.0 of a component was requested where the module declares 1.0.0
Witness_C11 ==
    /\ result.op = "resolve_and_validate"
    /\ result.component_ref.version = V200
    /\ result.outcome = ResolveError("MDA VERSION MISMATCH", <<V200, V100>>)

\* ------------------------------------------------- manifest store claims

\* C12: get_deployed(id) without a version returns the record of the version
\* a latest pointer of the manifest names, and get_deployed(id, v) keeps
\* returning the record deployed as v after a deploy of another version of
\* the manifest
CE_C12 ==
    [][result'.op = "deploy" =>
          \A id \in StoreIds :
             /\ \A r \in get_deployed(records', latest', id, NoVersion) :
                   r # NoneRec =>
                      \E ptr \in DOMAIN latest' :
                         ptr[2] = id /\ latest'[ptr].version = r.version
             /\ \A v \in StoreVersions \ {result'.manifest.version} :
                   \A r \in get_deployed(records, latest, id, v) :
                      r # NoneRec => get_deployed(records', latest', id, v) = {r}]_vars

\* the numeric components of a version string, in order
NumericParts(v) == parse_version(split_version(v))

\* C13: _compare_versions orders versions by their components taken as
\* numbers, not as text: compare('1.2.0', '1.10.0') < 0 and
\* compare('2.0.0', '1.9.9') > 0; over versions with the same number of
\* numeric components the first differing component decides, by its number,
\* and the comparison is antisymmetric and transitive
NumericOrder ==
    result.op = "compare_versions" =>
        LET p1 == NumericParts(result.v1)
            p2 == NumericParts(result.v2)
            cmp(a, b) == compare_versions(split_version(a), split_version(b))
        IN  /\ result.value \in {0 - 1, 0, 1}
            /\ Len(p1) = Len(p2) =>
                  /\ result.value = 0 <=> p1 = p2
                  /\ result.value < 0 <=>
                        \E i \in 1..Len(p1) :
                           p1[i] < p2[i] /\ \A j \in 1..(i - 1) : p1[j] = p2[j]
                  /\ result.value = 0 - cmp(result.v2, result.v1)
                  /\ \A w \in VersionStrings :
                        (/\ result.value <= 0
                         /\ Len(NumericParts(w)) = Len(p1)
                         /\ cmp(result.v2, w) <= 0) => cmp(result.v1, w) <= 0

\* '1.2.0' was compared with '1.10.0' and found smaller
Witness_C13 ==
    /\ result.op = "compare_versions"
    /\ result.v1 = <<<<"1">>, <<"2">>, <<"0">>>>
    /\ result.v2 = <<<<"1">>, <<"1", "0">>, <<"0">>>>
    /\ result.value < 0

\* C14: two versions of numeric components that differ only by omitted
\* trailing zero components compare equal, as compare('1.0', '1.0.0') == 0
CE_C14 ==
    result.op = "compare_versions" =>
        LET p1 == NumericParts(result.v1)
            p2 == NumericParts(result.v2)
            n == Min2(Len(p1), Len(p2))
        IN  (/\ Len(p1) = Len(result.v1)
             /\ Len(p2) = Len(result.v2)
             /\ \A i \in 1..n : p1[i] = p2[i]
             /\ \A i \in (n + 1)..Len(p1) : p1[i] = 0
             /\ \A i \in (n + 1)..Len(p2) : p2[i] = 0)
            => result.value = 0

\* ----------------------------------------------------------- trace claims

\* C15: trace(utid) reports the trace as verified exactly when the walk found
\* at least one real doc id in the doc_id / doc_ids fields of the records it
\* visited; a walk over records without a doc id is not reported as verified
CE_C15 ==
    (result.op = "trace" /\ result.report # "NOT_FOUND") =>
        (result.report = "TRACE VERIFIED"
            <=> \E u \in result.lineage.visited :
                   \E f \in EvidenceOf(files, u) :
                      \/ Get(files[f], "doc_id", NoDoc) \notin {NoDoc, UnknownDoc}
                      \/ Get(files[f], "doc_ids", <<>>) # <<>>)

\* ------------------------------------------------------- curation claims

\* C16: for a curation execution that ended SUCCESS, the doc_id in its
\* evidence record is the doc_id embedded in the raw artifact it consumed:
\* the one its own ingestion wrote in a normal run, the source run's in a
\* replay
DocIdOfRawArtifact ==
    \A u \in DOMAIN runs :
        (runs[u].kind = "curation" /\ runs[u].outcome.status = "SUCCESS") =>
            LET source == IF runs[u].source_utid # NoUtid THEN runs[u].source_utid ELSE u
                consumed == {f \in DOMAIN raw : f[3] = source}
            IN  /\ consumed # {}
                /\ \A e \in EvidenceOf(files, u) :
                      /\ files[e].status = "SUCCESS"
                      /\ "doc_id" \in DOMAIN files[e]
                      /\ \A f \in consumed : raw[f].doc_id = files[e].doc_id

\* a replay ended SUCCESS with the doc_id of its source's raw artifact, and
\* so did the source run with its own
Witness_C16 ==
    \E u \in DOMAIN runs :
        /\ runs[u].source_utid # NoUtid
        /\ runs[u].outcome.status = "SUCCESS"
        /\ runs[runs[u].source_utid].outcome.status = "SUCCESS"
        /\ \E e \in EvidenceOf(files, u) :
              files[e].doc_id = <<"doc", runs[u].source_utid>>

\* C17: find_first_success returns None only when no evidence record written
\* by a curation execution has status SUCCESS, matches (manifest_id, version)
\* and is not a replay
CE_C17 ==
    (result.op = "replay_version" /\ result.status = "NOT_FOUND") =>
        ~\E f \in DOMAIN files :
            /\ f[1] = "curation"
            /\ Get(files[f], "utid", NoUtid) \in DOMAIN runs
            /\ Get(files[f], "manifest_id", NoManifest) = result.manifest_id
            /\ Get(files[f], "manifest_version", NoVersion) = result.version
            /\ Get(files[f], "status", "") = "SUCCESS"
            /\ ~Get(files[f], "replay_mode", FALSE)

\* ------------------------------------------------- deploy race claims

\* C18: deploy's hash-compare-then-write is not atomic: when two interleaved
\* calls for the same (identity, version) with different content and
\* force=false have both written, neither was refused with the governance
\* violation and the stored record is the one of the later write
LaterWriteReplaces ==
    \A a, b \in Callers :
        (/\ VersionPathOf(calls[a]) = VersionPathOf(calls[b])
         /\ compute_hash(calls[a].manifest) # compute_hash(calls[b].manifest)
         /\ ~calls[a].force /\ ~calls[b].force
         /\ 0 < calls[a].deployed_at
         /\ calls[a].deployed_at < calls[b].deployed_at) =>
            /\ calls[a].status \in {"RUNNING", "DEPLOYED"}
            /\ calls[b].status \in {"RUNNING", "DEPLOYED"}
            /\ records[VersionPathOf(calls[b])].content_hash = compute_hash(calls[b].manifest)
            /\ records[VersionPathOf(calls[b])].deployed_at = calls[b].deployed_at

\* both calls returned DEPLOYED for the same version with different content
\* and force=false, and the record of the first write is gone
Witness_C18 ==
    /\ VersionPathOf(calls["first"]) = VersionPathOf(calls["second"])
    /\ calls["first"].manifest.body # calls["second"].manifest.body
    /\ ~calls["first"].force /\ ~calls["second"].force
    /\ calls["first"].status = "DEPLOYED" /\ calls["second"].status = "DEPLOYED"
    /\ calls["first"].deployed_at < calls["second"].deployed_at
    /\ records[VersionPathOf(calls["first"])].content_hash
           = compute_hash(calls["second"].manifest)

\* ---------------------------------------------------- file name claims

\* the files of a UTID that write_uir, update_status and write_bom write
UirFiles(fs, utid) ==
    {f \in DOMAIN fs : Get(fs[f], "utid", NoUtid) = utid /\ "record_type" \notin DOMAIN fs[f]}

CE_C21 ==
    [][result'.op = "update_status" =>
         LET before == EvidenceOf(files, result'.utid)
             after == EvidenceOf(files', result'.utid)
             named == {"status", StatusAt(result'.status), "updated_at"}
                          \cup DOMAIN result'.extra
         IN  /\ result'.exc = NoError
             /\ after # {}
             /\ before # {} => after = before
             /\ \A f \in after :
                    /\ files'[f].status = result'.status
                    /\ StatusAt(result'.status) \in DOMAIN files'[f]
                    /\ f \in before =>
                          /\ files'[f].created_at = files[f].created_at
                          /\ \A k \in DOMAIN files[f] \ named :
                                k \in DOMAIN files'[f] /\ files'[f][k] = files[f][k]]_vars

\* ---------------------------------------------------- interpreter claims

\* the interpreter of the module engine_type is constructed for u and the
\* manifest it hydrates declares another engine
EngineMismatch(u, engine_type) ==
    \A m \in get_manifest_for_execution(records, latest, runs[u].manifest_id,
                                         runs[u].version) :
        m # NoneRec /\ get_parser("curation", m) = NoError /\ m.engine # engine_type

\* C22: constructing a curation interpreter for a manifest whose declared
\* engine differs from the interpreter's ENGINE_TYPE raises the engine
\* mismatch error before STARTED is written and before any component is
\* resolved or invoked
EngineMismatchRaises ==
    [][\A u \in DOMAIN runs :
          /\ (/\ runs[u].pc = "queued"
              /\ runs'[u].pc # "queued"
              /\ EngineMismatch(u, result'.engine_type)) =>
                 /\ runs'[u].pc = "crashed"
                 /\ runs'[u].outcome = [status |-> "RAISED", error |-> "ValueError"]
                 /\ result'.status = "RAISED"
                 /\ files' = files /\ hist' = hist
                 /\ raw' = raw /\ facts' = facts
                 /\ runs'[u].bom = runs[u].bom /\ runs'[u].ctx = runs[u].ctx
          /\ runs[u].pc = "crashed" => runs'[u] = runs[u]]_vars

\* a queued replay of a python manifest was handed to the interpreter of
\* another engine, which raised; the replay is still QUEUED
Witness_C22 ==
    \E u \in DOMAIN runs :
        /\ result.op = "execute" /\ result.utid = u /\ result.status = "RAISED"
        /\ runs[u].pc = "crashed"
        /\ EngineMismatch(u, result.engine_type)
        /\ hist[u] = <<"QUEUED">>

StatusesOf(h, u) == {h[u][i] : i \in 1..Len(Get(h, u, <<>>))}

\* C23: in every curation execution STARTED is stored after the manifest
\* has been hydrated and its engine checked, and before the ingestion
\* component or any processing step is resolved or invoked; STARTED is never
\* stored when hydration fails
StartedAfterHydration ==
    [][\A u \in DOMAIN runs :
          runs[u].kind = "curation" =>
             /\ ("STARTED" \in StatusesOf(hist', u) /\ "STARTED" \notin StatusesOf(hist, u)) =>
                    /\ \E m \in get_manifest_for_execution(records, latest,
                                                           runs[u].manifest_id, runs[u].version) :
                          /\ m # NoneRec
                          /\ get_parser("curation", m) = NoError
                          /\ m.engine = result'.engine_type
                          /\ runs'[u].manifest = m
                    /\ runs[u].pc \in {"queued", "dispatch"}
                    /\ runs'[u].pc = "ingest"
                    /\ runs'[u].k = 0
                    /\ runs'[u].bom.components_used = <<>>
                    /\ runs'[u].ctx = Context
                    /\ raw' = raw /\ facts' = facts
             /\ (runs[u].pc \in {"ingest", "process"} /\ runs'[u] # runs[u]) =>
                    "STARTED" \in StatusesOf(hist, u)]_vars

\* an execution was started and its first component has run since; another
\* one, whose manifest failed the engine check, was never started
Witness_C23 ==
    /\ \E u \in DOMAIN hist :
          /\ hist[u] = <<"QUEUED", "STARTED">>
          /\ Len(runs[u].bom.components_used) = 1
    /\ \E u \in DOMAIN hist :
          /\ runs[u].kind = "curation"
          /\ runs[u].pc = "crashed"
          /\ runs[u].flow = "trigger_replay"
          /\ ~env.glob_raises
          /\ hist[u] = <<"QUEUED">>

\* C24: in replay mode the interpreter never resolves or invokes the
\* ingestion component, puts the source_utid into the context as
\* raw_source_utid before the first processing step runs, and records the
\* ingestion entry of the BOM as REPLAY_MODE with log status SKIPPED_REPLAY
ReplaySkipsIngestion ==
    \A u \in DOMAIN runs :
        (runs[u].kind = "curation" /\ runs[u].source_utid # NoUtid) =>
            LET run == runs[u]
                used == run.bom.components_used
                log == run.bom.execution_log
            IN  /\ {f \in DOMAIN raw : f[3] = u} = {}
                /\ run.ctx.ingested_file = NoFile
                /\ \A i \in 1..Len(used) :
                      used[i].step = "ingestion" =>
                         /\ i = 1
                         /\ used[i] = ReplayEntry(run.source_utid)
                         /\ log[i].status = "SKIPPED_REPLAY"
                /\ (run.pc \in {"process", "complete"} \/ Len(used) > 0) =>
                      /\ Len(used) > 0 /\ used[1].step = "ingestion"
                      /\ Len(log) > 0 /\ log[1].step = "ingestion"
                      /\ run.ctx.raw_source_utid = run.source_utid
                /\ run.pc \in {"queued", "ingest"} => used = <<>>

\* a replay stands before its first processing step
Witness_C24 ==
    \E u \in DOMAIN runs :
        /\ runs[u].source_utid # NoUtid
        /\ runs[u].pc = "process" /\ runs[u].k = 0
        /\ runs[u].ctx.raw_source_utid = runs[u].source_utid
        /\ runs[u].bom.components_used = <<ReplayEntry(runs[u].source_utid)>>

\* C25: processing steps are invoked one at a time in the order the manifest
\* declares them: step k is resolved and invoked only after step k-1 has
\* returned, and it receives the context that holds every field written by
\* ingestion and by the steps before it
StepsInDeclaredOrder ==
    [][\A u \in DOMAIN runs :
          LET run == runs[u]
              after == runs'[u]
          IN  /\ (run.pc = "process" /\ after # run) =>
                    LET steps == run.manifest.body.processing
                        used == run.bom.components_used
                    IN  /\ result' = Invoked(u, run.k + 1, result'.ok, result'.message)
                        /\ Len(used) = run.k + 1
                        /\ \A i \in 1..run.k :
                              used[i + 1] = BomEntry(steps[i].step_name, steps[i].component)
                        /\ result'.ok =>
                              /\ after.k = run.k + 1
                              /\ after.bom.components_used =
                                    Append(used, BomEntry(steps[run.k + 1].step_name,
                                                          steps[run.k + 1].component))
                              /\ after.pc = IF run.k + 1 = Len(steps) THEN "complete"
                                            ELSE "process"
                        /\ \A field \in DOMAIN Context :
                              run.ctx[field] # Context[field] =>
                                 after.ctx[field] # Context[field]
              /\ run.pc \notin {"ingest", "process"} => after.ctx = run.ctx]_vars

\* the third processing step is about to run and its context holds what
\* ingestion and the parser wrote
Witness_C25 ==
    \E u \in DOMAIN runs :
        /\ runs[u].pc = "process" /\ runs[u].k = 2
        /\ Len(runs[u].bom.components_used) = 3
        /\ runs[u].ctx.ingested_file # NoFile
        /\ runs[u].ctx.parsed_data # NoData

\* C26: when ingestion and all processing steps returned without error, the
\* BOM's components_used and execution_log hold the ingestion entry followed
\* by exactly one entry per declared processing step, in declared order, with
\* the manifest's path and version; the BOM is written, then status SUCCESS
\* is stored, and the returned result has status SUCCESS and contains that BOM
SuccessBom ==
    [][\A u \in DOMAIN runs :
          (runs[u].pc = "complete" /\ runs'[u] # runs[u]) =>
             LET run == runs'[u]
                 steps == run.manifest.body.processing
                 bom == run.outcome.bom
                 used == bom.components_used
                 log == bom.execution_log
             IN  /\ run.pc = "done"
                 /\ run.outcome.status = "SUCCESS"
                 /\ bom.status = "SUCCESS"
                 /\ Len(used) = Len(steps) + 1 /\ Len(log) = Len(steps) + 1
                 /\ used[1] = IF run.source_utid # NoUtid THEN ReplayEntry(run.source_utid)
                               ELSE BomEntry("ingestion", run.manifest.body.ingestion)
                 /\ log[1].step = "ingestion"
                 /\ \A i \in 1..Len(steps) :
                       /\ used[i + 1] = BomEntry(steps[i].step_name, steps[i].component)
                       /\ log[i + 1].step = steps[i].step_name
                       /\ log[i + 1].status = "SUCCESS"
                 /\ now' = now + 2
                 /\ \A f \in EvidenceOf(files', u) :
                       /\ files'[f].bom = bom
                       /\ files'[f].status = "SUCCESS"
                       /\ files'[f].success_at = now + 2
                 /\ hist'[u] = Append(hist[u], "SUCCESS")]_vars

\* an execution of a manifest with three processing steps returned SUCCESS
\* with a BOM of four entries, which is the BOM in its evidence record
Witness_C26 ==
    \E u \in DOMAIN runs :
        /\ runs[u].outcome.status = "SUCCESS"
        /\ Len(runs[u].manifest.body.processing) = 3
        /\ Len(runs[u].outcome.bom.components_used) = 4
        /\ \E f \in EvidenceOf(files, u) : files[f].bom = runs[u].outcome.bom

\* ------------------------------------------------------ publisher claims

\* C27: trigger_curation_job, trigger_semantic_job and trigger_replay check
\* that the requested manifest (version) is deployed before minting: a UTID
\* is minted only for a deployed manifest, and its QUEUED record with the
\* manifest id, the deployed version and its content hash is written before
\* the interpreter is dispatched; a trigger that raises mints no UTID and
\* writes no evidence record
QueuedBeforeDispatch ==
    [][/\ \A u \in DOMAIN runs' \ DOMAIN runs :
             runs'[u].kind \in {"curation", "semantic"} =>
                /\ \E d \in get_deployed(records, latest, runs'[u].manifest_id,
                                          runs'[u].version) :
                      /\ d # NoneRec
                      /\ \E f \in EvidenceOf(files', u) \ DOMAIN files :
                            /\ files'[f].manifest_id = runs'[u].manifest_id
                            /\ files'[f].manifest_version = d.version
                            /\ files'[f].content_hash = d.content_hash
                            /\ files'[f].created_at = now + 1
                /\ hist'[u][1] = "QUEUED"
                /\ runs'[u].kind = "curation" =>
                      /\ hist'[u] = <<"QUEUED">>
                      /\ runs'[u].bom = NoBom
                      /\ runs'[u].pc \in {"dispatch", "queued", "crashed"}
       /\ (/\ result'.op \in {"run_manifest", "run_semantic_manifest", "trigger_replay",
                                "replay_manifest"}
           /\ Get(result', "utid", NoUtid) = NoUtid) =>
              /\ runs' = runs /\ files' = files /\ seq' = seq /\ hist' = hist]_vars

\* a curation job was queued for a deployed manifest and waits for its
\* interpreter
Witness_C27 ==
    /\ result.op = "trigger_curation_job"
    /\ runs[result.utid].pc = "dispatch"
    /\ hist[result.utid] = <<"QUEUED">>
    /\ \E f \in EvidenceOf(files, result.utid), p \in DOMAIN records :
          /\ files[f].status = "QUEUED"
          /\ files[f].manifest_id = p[2]
          /\ files[f].manifest_version = records[p].version
          /\ files[f].content_hash = records[p].content_hash

\* ---------------------------------------------------------- trace claims

\* the semantic_utids of the retrieval record a trace started from
TracedParents ==
    UNION {{files[f].semantic_utids[i] : i \in 1..Len(files[f].semantic_utids)} :
           f \in {g \in EvidenceOf(files, result.utid) :
                     Get(files[g], "record_type", "unknown") = "retrieval"}}

\* C28: during trace reconstruction an upstream UTID that has no evidence
\* record is reported as a warning and skipped: the trace of an existing
\* record does not fail, every semantic_utid of a retrieval record that has
\* no evidence is among the warnings, and every one that has evidence is
\* still visited, whatever its place in the list
MissingUpstreamSkipped ==
    (result.op = "trace" /\ EvidenceOf(files, result.utid) # {}) =>
        /\ "error" \notin DOMAIN result.lineage
        /\ result.utid \in result.lineage.visited
        /\ \A s \in TracedParents :
              IF EvidenceOf(files, s) = {} THEN s \in result.lineage.warnings
              ELSE s \in result.lineage.visited
        /\ \A s \in result.lineage.warnings : EvidenceOf(files, s) = {}

\* a retrieval record whose first semantic utid lost its evidence in a reset
\* and whose second still has it was traced
Witness_C28 ==
    /\ result.op = "trace"
    /\ \E f \in EvidenceOf(files, result.utid) :
          /\ Get(files[f], "record_type", "unknown") = "retrieval"
          /\ Len(files[f].semantic_utids) = 2
          /\ EvidenceOf(files, files[f].semantic_utids[1]) = {}
          /\ EvidenceOf(files, files[f].semantic_utids[2]) # {}
          /\ files[f].semantic_utids[1] \in result.lineage.warnings
          /\ files[f].semantic_utids[2] \in result.lineage.visited

\* --------------------------------------------------------- engine claims

\* C29: an exception raised in a phase of the semantic or retrieval
\* execute() (source binding, component run, output write) is not
\* propagated: the call writes, through write_semantic or write_retrieval, a
\* new record for the UTID with status FAILURE and the error, and returns a
\* FAILURE result carrying the same error
EngineFailureRecorded ==
    [][\A u \in DOMAIN runs' \ DOMAIN runs :
          (runs'[u].kind \in {"semantic", "retrieval"}
             /\ Get(result', "raised", "none") # "none") =>
                /\ result'.status = "FAILURE"
                /\ runs'[u].outcome.status = "FAILURE"
                /\ runs'[u].outcome.error # NoError
                /\ hist'[u][Len(hist'[u])] = "FAILURE"
                /\ \E f \in DOMAIN files' \ DOMAIN files :
                      /\ f[1] = runs'[u].kind
                      /\ Get(files'[f], "record_type", "none") = runs'[u].kind
                      /\ Get(files'[f], "utid", NoUtid) = u
                      /\ files'[f].status = "FAILURE"
                      /\ files'[f].error = runs'[u].outcome.error]_vars

\* a semantic run could not open its output file and the retrieval run after
\* it found no projection to bind: both returned FAILURE and left a record
Witness_C29 ==
    \E u, v \in DOMAIN runs :
        /\ runs[u].kind = "semantic"
        /\ runs[u].outcome = [status |-> "FAILURE", utid |-> u, error |-> "OSError"]
        /\ runs[v].kind = "retrieval"
        /\ runs[v].outcome = [status |-> "FAILURE", utid |-> v, error |-> "ValueError"]
        /\ \E f, g \in DOMAIN files :
              /\ Get(files[f], "record_type", "none") = "semantic"
              /\ files[f].utid = u
              /\ files[f].status = "FAILURE"
              /\ files[f].error = "OSError"
              /\ Get(files[g], "record_type", "none") = "retrieval"
              /\ files[g].utid = v
              /\ files[g].status = "FAILURE"
              /\ files[g].error = "ValueError"

\* ------------------------------------------------------- version listing

\* the versions deploy has stored for a manifest id
VersionsOf(id) == {p[3] : p \in {q \in DOMAIN records : q[2] = id}}

\* C30: get_all_versions(id) returns exactly the versions deployed for the
\* manifest, each once, in ascending order of their numeric version tuples,
\* and its last element is the version the latest pointer names
CE_C30 ==
    \A id \in StoreIds : \A vs \in get_all_versions(records, id) :
      (\A p \in DOMAIN records : p[1] # FlatDir) =>
        /\ {vs[i] : i \in DOMAIN vs} = VersionsOf(id)
        /\ Len(vs) = Cardinality(VersionsOf(id))
        /\ \A i, j \in DOMAIN vs :
              i < j => TupleLess(version_key(vs[i]), version_key(vs[j]))
        /\ vs # <<>> => get_deployed_version(records, latest, id) = {vs[Len(vs)]}

\* -------------------------------------------------------- hydration claims

\* C31: get_manifest_for_execution raises the not-deployed error whenever
\* there is no record for the requested (id, version) or for the latest
\* version of id, and the versions its error names are the versions that
\* are deployed for the manifest (here: all in one directory of the store)
CE_C31 ==
    \A id \in StoreIds, version \in StoreVersions \cup {NoVersion} :
        (/\ NoneRec \in get_manifest_for_execution(records, latest, id, version)
         /\ \A p, q \in DOMAIN records : p[1] = q[1]) =>
            \A e \in not_deployed_error(records, id, version) :
                {e.versions[i] : i \in DOMAIN e.versions} = VersionsOf(id)

\* ----------------------------------------------------- forced deployments

\* the deploy call of this step replaced, by force, a version record whose
\* content differs from the manifest it was given
ForcedOverwrite ==
    /\ result'.op = "deploy"
    /\ result'.force
    /\ result'.status = "DEPLOYED"
    /\ TargetPath(result') \in DOMAIN records
    /\ records[TargetPath(result')].content_hash # compute_hash(result'.manifest)

\* C34: a deploy with force that overwrites a deployed version with other
\* content can be told from an ordinary first deployment: what it returns
\* differs from what the deployment of the same manifest returns on the
\* store that never held the version, and a deployment evidence record is
\* written for it
CE_C34 ==
    [][ForcedOverwrite =>
          /\ \A forced \in deploy_returns(records, latest, result'.manifest, TRUE,
                                          result'.layer, result'.agency),
                first \in deploy_returns(Without(records, TargetPath(result')), latest,
                                         result'.manifest, FALSE,
                                         result'.layer, result'.agency) :
                 (\A ptr \in DOMAIN latest :
                     latest[ptr].version # result'.manifest.version) => forced # first
          /\ \E f \in DOMAIN files' \ DOMAIN files :
                 /\ files'[f].record_type = "deployment"
                 /\ files'[f].manifest_id = get_manifest_id(result'.manifest)
                 /\ files'[f].manifest_version = result'.manifest.version]_vars

\* ------------------------------------------------- sequence counter claims

\* C32: the i-th call of next_seq for a store with a sequence file returns i (the
\* numbers start at 1 and each is one more than the previous, so none is issued
\* twice), and the call leaves the counter of every other store as it was
CE_C32 ==
    [][\A store \in SeqStores :
          (result'.op = "next_seq" /\ result'.store = store) =>
              /\ result'.returned = Len(hist[store]) + 1
              /\ \A i \in DOMAIN hist[store] : hist[store][i] # result'.returned
              /\ \A other \in SeqStores \ {store} : seq'[other] = seq[other]]_vars

\* ------------------------------------------------------- resolver claims

\* the address of the last call cannot be loaded: an engine-relative path
\* with an engine that has no base path, or a path that leads to no callable
Unloadable(component_ref, engine) ==
    IF is_engine_relative_path(component_ref.path)
    THEN \/ engine \notin ENGINE_BASE_PATHS
         \/ expand_engine_relative_path(component_ref.path, engine) \notin DOMAIN Museum
    ELSE remap_legacy_path(component_ref.path) \notin DOMAIN Museum

\* C33: a call of resolve_and_validate whose address cannot be loaded (unknown engine
\* for an engine-relative path, missing module, missing symbol) fails as a resolution
\* failure; a call that loads a unit without __mda_component__ metadata fails as a
\* governance failure, whatever version was requested; a failed call returns no callable
CE_C33 ==
    result.op = "resolve_and_validate" =>
        LET component_ref == result.component_ref
            outcome == result.outcome
        IN  /\ Unloadable(component_ref, result.engine) =>
                   (~outcome.ok /\ outcome.error = "MDA RESOLUTION FAILURE")
            /\ (/\ ~Unloadable(component_ref, result.engine)
                /\ resolve_unvalidated(component_ref, result.engine).func.version = NoVersion) =>
                   (~outcome.ok /\ outcome.error = "MDA GOVERNANCE FAILURE")
            /\ ~outcome.ok => "func" \notin DOMAIN outcome

\* ------------------------------------------------- concurrent writer claims

\* C35: when two runs with distinct utids have each written their first evidence
\* record, of the same record type, manifest id and version, the two records have
\* different sequence numbers and file names, and the file of each run holds the
\* record of that run
CE_C35 ==
    \A u \in Writers, v \in Writers :
        (/\ u # v
         /\ calls[u].pc = "done" /\ calls[v].pc = "done"
         /\ RecordType(calls[u].data) = RecordType(calls[v].data)
         /\ calls[u].data.manifest_id = calls[v].data.manifest_id) =>
            /\ calls[u].path[2] # calls[v].path[2]
            /\ calls[u].path # calls[v].path
            /\ files[calls[u].path].utid = u
            /\ files[calls[u].path].created_at = files[calls[u].path].updated_at

\* ------------------------------------------------- concurrent deploy claims

\* C36: when the deploy calls of two different versions of one identity, made for the
\* same layer and agency, have interleaved and both have returned DEPLOYED, the latest
\* pointer of the identity names the higher of the two versions
CE_C36 ==
    LET first == calls["first"]
        second == calls["second"]
        higher == IF compare_versions(first.manifest.version, second.manifest.version) > 0
                  THEN first.manifest.version ELSE second.manifest.version
        ptr == get_latest_pointer_path(get_manifest_id(first.manifest), first.layer,
                                       first.agency)
    IN  (/\ first.status = "DEPLOYED" /\ second.status = "DEPLOYED"
         /\ get_manifest_id(first.manifest) = get_manifest_id(second.manifest)
         /\ compare_versions(first.manifest.version, second.manifest.version) # 0
         /\ first.layer = second.layer /\ first.agency = second.agency) =>
            (ptr \in DOMAIN latest /\ latest[ptr].version = higher)

\* ------------------------------------------- bill of materials claims

\* the records of curation runs in the evidence store
CurationRecords ==
    {f \in DOMAIN files : /\ RecordType(files[f]) = "curation"
                          /\ "record_type" \notin DOMAIN files[f]}

\* C37: every curation evidence record with status SUCCESS or FAILURE contains a BOM
\* whose status equals the status of the record and whose utid equals the utid of
\* the record, and a curation evidence record with status QUEUED contains no BOM
TerminalHasBom ==
    \A f \in CurationRecords :
        /\ Get(files[f], "status", "none") \in {"SUCCESS", "FAILURE"} =>
               /\ "bom" \in DOMAIN files[f]
               /\ files[f].bom.status = files[f].status
               /\ files[f].bom.utid = files[f].utid
        /\ Get(files[f], "status", "none") = "QUEUED" => "bom" \notin DOMAIN files[f]

\* a run has ended with SUCCESS and another with FAILURE, each with its BOM in
\* its record, while a third run is still queued
Witness_C37 ==
    \E f, g, h \in CurationRecords :
        /\ files[f].status = "SUCCESS" /\ files[f].bom.status = "SUCCESS"
        /\ files[g].status = "FAILURE" /\ files[g].bom.utid = files[g].utid
        /\ files[h].status = "QUEUED"

\* ------------------------------------------------ lineage closure claims

RecordsOfType(record_type) ==
    {f \in DOMAIN files : /\ Get(files[f], "record_type", "curation") = record_type
                          /\ Get(files[f], "status", "none") = "SUCCESS"}

\* C38: after any sequence of curation, semantic, retrieval, replay and reset
\* operations every semantic evidence record with status SUCCESS names a curation_utid
\* whose curation evidence record exists and has the same doc_id, and every retrieval
\* evidence record with status SUCCESS lists only semantic_utids whose semantic
\* evidence record exists
CE_C38 ==
    /\ \A f \in RecordsOfType("semantic") :
           \E g \in CurationRecords :
               /\ files[g].utid = files[f].curation_utid
               /\ Get(files[g], "doc_id", NoDoc) = files[f].doc_id
    /\ \A f \in RecordsOfType("retrieval") :
           \A i \in DOMAIN files[f].semantic_utids :
               \E g \in DOMAIN files :
                   /\ Get(files[g], "record_type", "curation") = "semantic"
                   /\ files[g].utid = files[f].semantic_utids[i]

\* ------------------------------------------------------- termination claims

\* C39: trace(utid) terminates for every content of the evidence store, records whose
\* curation_utid or semantic_utids name themselves or each other included: every
\* call returns, and the calls go no deeper than from a retrieval record to a
\* semantic record to a curation record
TraceTerminates ==
    /\ [](\A i \in DOMAIN calls : calls[i].depth <= 3 /\ calls[i].depth = i)
    /\ <>(result.op = "trace" /\ calls = <<>>)

\* the trace of a retrieval record that lists itself among its semantic_utids and
\* names itself as its curation parent has returned
Witness_C39 ==
    /\ result.op = "trace"
    /\ calls = <<>>
    /\ result.steps > 3
    /\ \E f \in DOMAIN files :
          /\ files[f].utid = result.utid
          /\ files[f].layer = "retrieval"
          /\ files[f].curation_utid = result.utid
          /\ \E i \in DOMAIN files[f].semantic_utids : files[f].semantic_utids[i] = result.utid

====
